---- MODULE Spec2Model ----
(***************************************************************************)
(* Model of vivarium's scheduler (Experiment.update) over the Store tree.  *)
(* Times are integers: a configuration's timesteps and interval are given  *)
(* in a common unit (Scenario B of test_timescales is scaled by ten).      *)
(***************************************************************************)
EXTENDS Integers, Sequences, FiniteSets, TLC

\* ------------------------------------------------------------------ bounds
MaxStep == 3         \* largest local_timestep() of a generated configuration
MaxInterval == 5     \* largest interval passed to update()
MaxTriggers == 1     \* how often a structural trigger (divide) is raised in a run
MaxDensity == 2      \* largest initial DENSITY of the cytoplasm
MaxMass == 2         \* the initial MASS of the cytoplasm is 0 or MaxMass

\* ------------------------------------------------------- program constants
INFINITY == 1000000
SlowStep == 30
FastStep == 1
ScenarioInterval == 100

None == <<"None">>

\* ------------------------------------------------------------------- paths
IsPrefix(p, q) == Len(p) <= Len(q) /\ SubSeq(q, 1, Len(p)) = p
ButLast(p) == SubSeq(p, 1, Len(p) - 1)
LastOf(p) == p[Len(p)]

RECURSIVE normalize_from(_, _)
normalize_from(progress, path) ==
    IF path = <<>> THEN progress
    ELSE IF Head(path) = ".." /\ Len(progress) > 0
         THEN normalize_from(ButLast(progress), Tail(path))
         ELSE normalize_from(Append(progress, Head(path)), Tail(path))

normalize_path(path) == normalize_from(<<>>, path)

\* ------------------------------------------------------------------- store
\* The tree is the sequence of its nodes in depth() order (pre-order, the
\* children of a node in insertion order); a node is a record
\*   path, kind ("branch" | "leaf" | "proc"), n/d (a leaf's value n/d),
\*   oid (identity of a process node, 0 otherwise).
Branch(p) == [path |-> p, kind |-> "branch", n |-> 0, d |-> 1, oid |-> 0]
Leaf(p, v) == [path |-> p, kind |-> "leaf", n |-> v, d |-> 1, oid |-> 0]
Proc(p, o) == [path |-> p, kind |-> "proc", n |-> 0, d |-> 1, oid |-> o]

Paths(st) == {st[i].path : i \in 1..Len(st)}
IndexOf(st, p) == CHOOSE i \in 1..Len(st) : st[i].path = p
NodeAt(st, p) == st[IndexOf(st, p)]
HasInner(st, p) == \E i \in 1..Len(st) :
    Len(st[i].path) = Len(p) + 1 /\ IsPrefix(p, st[i].path)

depth(st) == [i \in 1..Len(st) |-> st[i].path]

RECURSIVE get_path(_, _, _)
\* get_path that stops at the first step of the path
get_path_step(st, base, path) ==
    IF path = <<>> THEN base
    ELSE IF Head(path) # ".." /\ Append(base, Head(path)) \in Paths(st)
    THEN Append(base, Head(path))
    ELSE None

get_path(st, base, path) ==
    IF path = <<>> THEN base
    ELSE LET step == Head(path)
             child == IF step = ".."
                      THEN (IF base = <<>> THEN None ELSE ButLast(base))
                      ELSE (IF Append(base, step) \in Paths(st)
                            THEN Append(base, step) ELSE None)
         IN IF child = None THEN None ELSE get_path(st, child, Tail(path))

\* the nodes below p follow it directly
LastDescendant(st, p) ==
    IndexOf(st, p)
        + Len(SelectSeq(st, LAMBDA r : IsPrefix(p, r.path))) - 1

\* self.inner[key] = node: a new key goes last among the children, an
\* existing key keeps its place and loses its subtree to the new node
PutNode(st, rec) ==
    IF rec.path \in Paths(st)
    THEN LET i == IndexOf(st, rec.path)
             k == LastDescendant(st, rec.path)
         IN SubSeq(st, 1, i - 1) \o <<rec>> \o SubSeq(st, k + 1, Len(st))
    ELSE LET k == LastDescendant(st, ButLast(rec.path))
         IN SubSeq(st, 1, k) \o <<rec>> \o SubSeq(st, k + 1, Len(st))

SetNode(st, rec) == [st EXCEPT ![IndexOf(st, rec.path)] = rec]

SelectNodes(st, keep(_)) == SelectSeq(st, keep)

\* --------------------------------------------------------- configuration
\* A configuration is what Experiment is constructed from:
\*   outer     where the compartment is mounted (outer_path)
\*   order     the process names, in the order of the processes dictionary
\*   ts        name -> local_timestep()
\*   targets   the names ToyDeath deletes
\*   interval  the argument of update()
\*   density   the initial DENSITY of the cytoplasm
\*   mass      the initial MASS of the cytoplasm
\*   directive the structural directive of the division process: "divide"
\*             (MetaDivision) or "generate"
\*   genpath   the path of a _generate directive
\*   spawn     the process names a _generate directive brings
\* "division" is MetaDivision (a Deriver); "divider" is a Process with the
\* same next_update whose is_deriver() is the default, False.
\*
\* What a process computes matters to the scheduler only through the
\* directives it returns.  The processes that neither delete nor divide
\* ("slow", "fast", "metabolism", "transport") are modelled with the linear
\* growth of ToyLinearGrowthDeathProcess: MASS += GROWTH_RATE * timestep on
\* the cytoplasm.  ToyDeath and ToyDeriveVolume are as in the source.  The
\* 'divide' flag MetaDivision reads is set from outside the compartment:
\* it is an input of the step that calls next_update.
KindOf(name) ==
    CASE name \in {"slow", "fast", "metabolism", "transport"} -> "growth"
      [] name = "death" -> "death"
      [] name = "internal_volume" -> "volume"
      [] name \in {"division", "divider"} -> "division"

is_deriver(name) == name \in {"internal_volume", "division"}

GROWTH_RATE == 1
VOLUME_LIMIT == 1
CytoplasmPath == <<"cytoplasm">>
GlobalPath == <<"global">>
DeathPath == <<>>
CellsPath == <<"..", "..", "cells">>

\* ports_schema() joined with the topology of the process: for every port
\* the path it is wired to and the leaves it declares there (every _default
\* of these schemas is 0.0, the targets' is None)
PortsOf(name, c) ==
    CASE KindOf(name) = "growth" ->
           <<[path |-> CytoplasmPath, leaves |-> <<"MASS">>]>>
      [] KindOf(name) = "death" ->
           <<[path |-> CytoplasmPath, leaves |-> <<"VOLUME">>],
             [path |-> DeathPath, leaves |-> c.targets]>>
      [] KindOf(name) = "volume" ->
           <<[path |-> CytoplasmPath,
              leaves |-> <<"MASS", "DENSITY", "VOLUME">>]>>
      [] KindOf(name) = "division" ->
           <<[path |-> GlobalPath, leaves |-> <<"divide">>],
             [path |-> CellsPath, leaves |-> <<>>]>>

\* ------------------------------------------------- store operations (world)
\* The operations thread a record through their steps:
\*   st     the tree
\*   tombs  the oids of the nodes marked deleted
\*   topo   the paths that have an entry in Experiment.topology
\*   oid    the next fresh node identity
\*   err    an exception was raised
World(st, tombs, topo, oid) ==
    [st |-> st, tombs |-> tombs, topo |-> topo, oid |-> oid, err |-> FALSE]

Raise(w) == [w EXCEPT !.err = TRUE]

OidsUnder(st, p) ==
    {st[k].oid : k \in {j \in 1..Len(st) :
        IsPrefix(p, st[j].path) /\ st[j].kind = "proc"}}

delete_path(w, base, path) ==
    IF path = <<>>
    THEN [w EXCEPT !.st = SelectNodes(w.st,
              LAMBDA r : ~(IsPrefix(base, r.path) /\ r.path # base))]
    ELSE LET target == get_path(w.st, base, ButLast(path))
             lost == Append(target, LastOf(path))
         IN IF target = None THEN Raise(w)
            ELSE IF lost \in Paths(w.st)
            THEN [w EXCEPT
                    !.st = SelectNodes(w.st, LAMBDA r : ~IsPrefix(lost, r.path)),
                    !.tombs = @ \cup OidsUnder(w.st, lost)]
            ELSE w

RECURSIVE delete_paths(_, _, _)
delete_paths(w, base, paths) ==
    IF paths = <<>> \/ w.err THEN w
    ELSE delete_paths(delete_path(w, base, Head(paths)), base, Tail(paths))

\* establish_path(path, {}): the node reached, None when '..' leaves the root
RECURSIVE establish_path(_, _, _)
establish_path(st, base, path) ==
    IF path = <<>> THEN [st |-> st, at |-> base]
    ELSE IF Head(path) = ".."
         THEN IF base = <<>> THEN [st |-> st, at |-> None]
              ELSE establish_path(st, ButLast(base), Tail(path))
         ELSE LET child == Append(base, Head(path))
                  st1 == IF child \in Paths(st) THEN st
                         ELSE PutNode(st, Branch(child))
              IN establish_path(st1, child, Tail(path))

\* apply_config of a port's schema at the node the port is wired to: every
\* declared leaf that is missing is created; apply_defaults then gives it
\* its default
RECURSIVE declare_leaves(_, _, _)
declare_leaves(w, at, leaves) ==
    IF leaves = <<>> \/ w.err THEN w
    ELSE LET p == Append(at, Head(leaves))
             w1 == IF p \in Paths(w.st)
                   THEN (IF HasInner(w.st, p) THEN Raise(w) ELSE w)
                   ELSE [w EXCEPT !.st = PutNode(w.st, Leaf(p, 0))]
         IN declare_leaves(w1, at, Tail(leaves))

RECURSIVE topology_ports(_, _, _)
topology_ports(w, target, ports) ==
    IF ports = <<>> \/ w.err THEN w
    ELSE LET port == Head(ports)
             r == establish_path(w.st, target, port.path)
             w1 == IF r.at = None THEN Raise(w)
                   ELSE IF port.leaves # <<>> /\ NodeAt(r.st, r.at).kind # "branch"
                   THEN Raise(w)
                   ELSE declare_leaves([w EXCEPT !.st = r.st], r.at, port.leaves)
         IN topology_ports(w1, target, Tail(ports))

RECURSIVE generate_paths(_, _, _, _)
generate_paths(w, target, names, c) ==
    IF names = <<>> \/ w.err THEN w
    ELSE LET p == Append(target, Head(names))
             w1 == [w EXCEPT !.st = PutNode(w.st, Proc(p, w.oid)),
                             !.oid = @ + 1]
             w2 == topology_ports(w1, target, PortsOf(Head(names), c))
         IN generate_paths(w2, target, Tail(names), c)

\* Store.generate(path, processes, topology, initial_state = {})
generate(w, base, path, names, c) ==
    LET r == establish_path(w.st, base, path)
    IN IF r.at = None THEN Raise(w)
       ELSE generate_paths([w EXCEPT !.st = r.st], r.at, names, c)

\* assoc_path(topology_updates, path, topology), merged upwards under the
\* keys of the branches the update came through
topology_updates(node, path, names) ==
    IF path = <<>> THEN {}
    ELSE {node \o path \o <<names[k]>> : k \in 1..Len(names)}

\* ----------------------------------------------------------------- updates
\* An update in absolute form (the result of inverse_topology) is the
\* sequence of its entries: `at` is the store the entry is addressed to,
\* kind is "acc" | "set" (a leaf update of `key` by n/d), "delete" (the
\* directive _delete with the paths `targets`), "divide" (_divide of
\* `mother`) or "generate" (_generate at `path`); "" is the empty update.
NoEntry ==
    [at |-> <<>>, kind |-> "", key |-> "", n |-> 0, d |-> 1,
     targets |-> <<>>, mother |-> "", path |-> <<>>]

\* assoc_path(inverse, inner, value) on an empty inverse
assoc_path(inner, entry) == IF inner = <<>> THEN <<>> ELSE <<entry>>

\* inverse_topology(outer, update, topology), for an update of one port
inverse_topology(outer, raw) ==
    IF raw.entry.kind = "" THEN <<>>
    ELSE LET inner == normalize_path(outer \o raw.port)
         IN assoc_path(inner, [raw.entry EXCEPT !.at = inner])

\* the node an update addressed to `rest` below `node` reaches: the node,
\* "dropped" when a key on the way is no child, "raise" when a node on the
\* way has no children (it is updated as a leaf, with a dictionary)
RECURSIVE descend(_, _, _)
descend(st, node, rest) ==
    IF ~HasInner(st, node) THEN <<"raise">>
    ELSE IF rest = <<>> THEN node
    ELSE IF Append(node, Head(rest)) \in Paths(st)
         THEN descend(st, Append(node, Head(rest)), Tail(rest))
         ELSE <<"dropped">>

\* a daughter's set_value(initial_state): the leaves the mother held
RECURSIVE set_value(_, _, _, _)
set_value(st, template, mother, daughter) ==
    IF template = <<>> THEN st
    ELSE LET src == Head(template)
             p == daughter \o SubSeq(src.path, Len(mother) + 1, Len(src.path))
             st1 == IF p \in Paths(st) /\ ~HasInner(st, p)
                    THEN SetNode(st, [NodeAt(st, p) EXCEPT
                             !.kind = "leaf", !.n = src.n, !.d = src.d, !.oid = 0])
                    ELSE st
         IN set_value(st1, Tail(template), mother, daughter)

daughter_phylogeny_id(mother_id) == <<mother_id \o "0", mother_id \o "1">>

RECURSIVE divide_daughters(_, _, _, _, _, _)
divide_daughters(w, node, mother, ids, template, c) ==
    IF ids = <<>> \/ w.err THEN w
    ELSE LET daughter == Append(node, Head(ids))
             w1 == generate(w, node, <<Head(ids)>>, c.order, c)
             w2 == IF w1.err THEN w1
                   ELSE [w1 EXCEPT
                       !.st = set_value(w1.st, template, Append(node, mother), daughter),
                       !.topo = @ \cup topology_updates(node, <<Head(ids)>>, c.order)]
         IN divide_daughters(w2, node, mother, Tail(ids), template, c)

\* Store.apply_update at the branch `node` for one entry
apply_entry(w, node, e, c) ==
    CASE e.kind = "delete" -> delete_paths(w, node, e.targets)
      [] e.kind = "generate" ->
           LET w1 == generate(w, node, e.path, c.spawn, c)
           IN IF w1.err THEN w1
              ELSE [w1 EXCEPT !.topo = @ \cup topology_updates(node, e.path, c.spawn)]
      [] e.kind = "divide" ->
           LET m == Append(node, e.mother)
               template == SelectNodes(w.st,
                   LAMBDA r : IsPrefix(m, r.path) /\ r.kind = "leaf")
           IN IF m \notin Paths(w.st) THEN Raise(w)
              ELSE delete_path(
                     divide_daughters(w, node, e.mother,
                         daughter_phylogeny_id(e.mother), template, c),
                     node, <<e.mother>>)
      [] OTHER ->
           LET p == Append(node, e.key)
           IN IF p \notin Paths(w.st) THEN w
              ELSE IF HasInner(w.st, p) THEN Raise(w)
              ELSE LET old == NodeAt(w.st, p)
                   IN [w EXCEPT !.st = SetNode(w.st,
                        IF e.kind = "acc"
                        THEN [old EXCEPT !.n = @ + e.n]
                        ELSE [old EXCEPT !.n = e.n, !.d = e.d])]

RECURSIVE apply_entries(_, _, _)
apply_entries(w, entries, c) ==
    IF entries = <<>> \/ w.err THEN w
    ELSE LET e == Head(entries)
             node == descend(w.st, <<>>, e.at)
             w1 == IF node = <<"raise">> THEN Raise(w)
                   ELSE IF node = <<"dropped">> THEN w
                   ELSE apply_entry(w, node, e, c)
         IN apply_entries(w1, Tail(entries), c)

\* Experiment.apply_update(update): Store.apply_update at the root (the
\* update always carries the key _path, which is no child of the root) and
\* the merge of the topology updates
apply_update(w, update, c) ==
    IF ~HasInner(w.st, <<>>) THEN Raise(w)
    ELSE apply_entries(w, update, c)

\* ---------------------------------------------------------------- processes
\* schema_topology: every port and every leaf the schema declares is looked
\* up with get_path; a missing one is an AttributeError on None
Readable(st, outer, ports) ==
    \A k \in 1..Len(ports) :
        LET node == get_path(st, outer, ports[k].path)
        IN /\ node # None
           /\ \A j \in 1..Len(ports[k].leaves) :
                  Append(node, ports[k].leaves[j]) \in Paths(st)

Raw(port, entry) == [port |-> port, entry |-> entry]

\* next_update(timestep, states): the port the update names and its content
next_update(st, path, timestep, divide, c) ==
    LET outer == ButLast(path)
        cyto == get_path(st, outer, CytoplasmPath)
    IN CASE KindOf(LastOf(path)) = "growth" ->
              Raw(CytoplasmPath, [NoEntry EXCEPT
                  !.kind = "acc", !.key = "MASS", !.n = GROWTH_RATE * timestep])
         [] KindOf(LastOf(path)) = "death" ->
              LET volume == NodeAt(st, Append(cyto, "VOLUME"))
              IN IF volume.n > VOLUME_LIMIT * volume.d
                 THEN Raw(DeathPath, [NoEntry EXCEPT
                          !.kind = "delete",
                          !.targets = [j \in 1..Len(c.targets) |-> <<c.targets[j]>>]])
                 ELSE Raw(<<>>, NoEntry)
         [] KindOf(LastOf(path)) = "volume" ->
              Raw(CytoplasmPath, [NoEntry EXCEPT
                  !.kind = "set", !.key = "VOLUME",
                  !.n = NodeAt(st, Append(cyto, "MASS")).n,
                  !.d = NodeAt(st, Append(cyto, "DENSITY")).n])
         [] KindOf(LastOf(path)) = "division" ->
              IF ~divide THEN Raw(<<>>, NoEntry)
              ELSE IF c.directive = "divide"
              THEN Raw(CellsPath, [NoEntry EXCEPT
                       !.kind = "divide", !.mother = LastOf(outer)])
              ELSE Raw(CellsPath, [NoEntry EXCEPT
                       !.kind = "generate", !.path = c.genpath])

\* a process_update that writes its update into the tree at once
process_update_eager(w, path, interval, divide, c) ==
    LET raw == next_update(w.st, path, interval, divide, c)
        update == inverse_topology(ButLast(path), raw)
    IN IF path \notin w.topo \/ ~Readable(w.st, ButLast(path), PortsOf(LastOf(path), c))
       THEN [err |-> TRUE, update |-> <<>>, directive |-> "", st |-> w.st]
       ELSE [err |-> FALSE, update |-> update, directive |-> raw.entry.kind,
             st |-> apply_update(w, update, c).st]

\* Experiment.process_update(path, state, interval): the update in absolute
\* form; the call leaves the tree as it is
process_update(w, path, interval, divide, c) ==
    IF path \notin w.topo \/ ~Readable(w.st, ButLast(path), PortsOf(LastOf(path), c))
    THEN [err |-> TRUE, update |-> <<>>, directive |-> "", st |-> w.st]
    ELSE IF KindOf(LastOf(path)) = "volume"
            /\ NodeAt(w.st, Append(get_path(w.st, ButLast(path), CytoplasmPath), "DENSITY")).n = 0
    THEN [err |-> TRUE, update |-> <<>>, directive |-> "", st |-> w.st]
    ELSE LET raw == next_update(w.st, path, interval, divide, c)
         IN [err |-> FALSE,
             update |-> inverse_topology(ButLast(path), raw),
             directive |-> raw.entry.kind,
             st |-> w.st]

\* ------------------------------------------------------------- experiments
Steps == 1..MaxStep

Config(outer, order, ts, targets, interval, density, mass, directive, genpath) ==
    [outer |-> outer, order |-> order, ts |-> ts, targets |-> targets,
     interval |-> interval, density |-> density, mass |-> mass,
     directive |-> directive, genpath |-> genpath,
     spawn |-> <<"transport", "internal_volume">>]

TimescaleConfigs ==
    {Config(<<>>, o, t, <<>>, n, 1, 0, "", <<>>) :
        o \in {<<>>, <<"internal_volume">>, <<"slow">>, <<"slow", "fast">>},
        t \in [{"slow", "fast"} -> Steps], n \in 1..MaxInterval}

ScenarioB ==
    Config(<<>>, <<"slow", "fast">>,
           [x \in {"slow", "fast"} |-> IF x = "slow" THEN SlowStep ELSE FastStep],
           <<>>, ScenarioInterval, 1, 0, "", <<>>)

ToyCompartment == <<"metabolism", "transport", "death", "internal_volume">>

CompartmentConfigs ==
    {Config(u, ToyCompartment, t, g, n, d, m, "", <<>>) :
        u \in {<<>>, <<"cells", "0">>},
        t \in [{"metabolism", "transport", "death"} -> Steps],
        g \in {<<"metabolism", "transport">>, <<"death">>, <<"transport", "death">>},
        n \in 1..MaxInterval, d \in 1..MaxDensity, m \in {0, MaxMass}}

DivisionConfigs ==
    {Config(<<"cells", "0">>, <<"metabolism", "internal_volume", s>>, t, <<>>,
            n, 1, 0, v[1], v[2]) :
        s \in {"division", "divider"},
        t \in [{"metabolism", "transport", "divider"} -> Steps],
        n \in 1..MaxInterval,
        v \in {<<"divide", <<>>>>, <<"generate", <<"1">>>>, <<"generate", <<>>>>}}

\* the dividing process comes first among the processes of the cell, so
\* its update is applied before the updates of the others in a batch
EarlyDivisionConfigs ==
    {Config(<<"cells", "0">>, <<"divider", "metabolism", "internal_volume">>,
            t, <<>>, n, 1, 0, "divide", <<>>) :
        t \in [{"metabolism", "transport", "divider"} -> Steps],
        n \in 1..MaxInterval}

\* the dividing process is a deriver and comes before the volume deriver
\* of its cell in depth() order
DeriverFirstConfigs ==
    {Config(<<"cells", "0">>, <<"division", "metabolism", "internal_volume">>,
            t, <<>>, n, 1, 0, "divide", <<>>) :
        t \in [{"metabolism", "transport"} -> Steps],
        n \in 1..MaxInterval}

Configs == TimescaleConfigs \cup {ScenarioB} \cup CompartmentConfigs
               \cup DivisionConfigs \cup EarlyDivisionConfigs
               \cup DeriverFirstConfigs

unit_timestep(path, c) == 1

\* process.local_timestep()
local_timestep(path, c) == c.ts[LastOf(path)]

future_uncapped(process_time, timestep, interval) == process_time + timestep

\* future = min(process_time + process.local_timestep(), interval)
future_of(process_time, timestep, interval) ==
    IF process_time + timestep < interval THEN process_time + timestep
    ELSE interval

\* generate_state(processes, topology, initial_state)
initial_state(st, c) ==
    LET cyto == c.outer \o CytoplasmPath
        st1 == IF Append(cyto, "MASS") \in Paths(st)
               THEN SetNode(st, Leaf(Append(cyto, "MASS"), c.mass)) ELSE st
    IN IF Append(cyto, "DENSITY") \in Paths(st1)
       THEN SetNode(st1, Leaf(Append(cyto, "DENSITY"), c.density)) ELSE st1

generate_state(c) ==
    LET w == generate(World(<<Branch(<<>>)>>, {}, {}, 1), <<>>, c.outer, c.order, c)
    IN [w EXCEPT !.st = initial_state(w.st, c),
                 !.topo = {c.outer \o <<c.order[k]>> : k \in 1..Len(c.order)}]

\* the process nodes of the tree, in depth() order
ProcessNodes(st, deriver) ==
    SelectNodes(st, LAMBDA r : r.kind = "proc" /\ is_deriver(LastOf(r.path)) = deriver)

\* ---------------------------------------------------------------- scheduler
VARIABLES
    cfg,          \* the configuration the experiment was constructed from
    state,        \* Experiment.state, the tree
    tombs,        \* oids of the nodes marked deleted
    topology,     \* paths with an entry in Experiment.topology
    oid,          \* next fresh node identity
    time,         \* update(): time
    local_time,   \* Experiment.local_time
    front,        \* update(): front, in insertion order: path, time, update
    processes,    \* update(): processes of this tick, in depth() order
    derivers,     \* the derivers handed to run_derivers: path, oid
    pc,           \* position in the constructor / update()
    i,            \* index of the running loop
    full_step,    \* update(): full_step
    updates,      \* update(): the batch handed to send_updates
    triggers,     \* how often a structural trigger was raised
    calls,        \* history: the next_update calls of non-derivers
    snapshot,     \* history: the tree when the tick started
    applied,      \* history: the front entries applied, with the new time
    derived,      \* history: oids of the derivers run in the current pass
    emit_step,    \* Experiment.emit_step; NoEmitStep stands for None
    emit_time,    \* update(): emit_time
    emits         \* history: the time tags of the snapshots emitted

\* a single Store driven operation by operation
VARIABLES
    tree,         \* the Store: its nodes, in depth() order
    gone,         \* the nodes the last operation detached from the tree
    exc,          \* whether the last operation raised
    op,           \* the last operation and its arguments
    prev,         \* history: the tree before the last operation
    ret,          \* the path of the node the last operation returned
    data,         \* the data the last operation returned
    ops           \* number of operations applied

svars == <<tree, gone, exc, op, prev, ret, data, ops>>

evars == <<emit_step, emit_time, emits>>

vars == <<cfg, state, tombs, topology, oid, time, local_time, front,
          processes, derivers, pc, i, full_step, updates, triggers,
          calls, snapshot, applied, derived, emit_step, emit_time, emits,
          tree, gone, exc, op, prev, ret, data, ops>>

\* no operation applied
NoOp == [name |-> "", path |-> <<>>, arg |-> <<>>]

\* the scheduler runs without the operation-by-operation Store
StoreIdle ==
    /\ tree = <<>>
    /\ gone = <<>>
    /\ exc = FALSE
    /\ op = NoOp
    /\ prev = <<>>
    /\ ret = None
    /\ data = <<>>
    /\ ops = 0

W == World(state, tombs, topology, oid)

SetWorld(w) ==
    /\ state' = w.st
    /\ tombs' = w.tombs
    /\ topology' = w.topo
    /\ oid' = w.oid

empty_front(path, t) == [path |-> path, time |-> t, update |-> <<>>]

FrontPaths(f) == {f[k].path : k \in 1..Len(f)}
FrontOf(f, path) == f[CHOOSE k \in 1..Len(f) : f[k].path = path]
Min(a, b) == IF a < b THEN a ELSE b

\* send_updates(updates) with derivers = None: the derivers of the tree
fresh_derivers(st) ==
    LET ds == ProcessNodes(st, TRUE)
    IN [k \in 1..Len(ds) |-> [path |-> ds[k].path, oid |-> ds[k].oid]]

\* emit_step is None
NoEmitStep == 0

\* Experiment(config) with an emit_step out of steps
Experiment(steps) ==
    /\ cfg \in Configs
    /\ emit_step \in steps
    /\ emit_time = emit_step
    /\ emits = <<>>
    /\ \E w \in {generate_state(cfg)} :
          /\ state = w.st
          /\ tombs = w.tombs
          /\ topology = w.topo
          /\ oid = w.oid
          /\ derivers = fresh_derivers(w.st)
          /\ snapshot = w.st
    /\ time = 0
    /\ local_time = 0
    /\ front = <<>>
    /\ processes = <<>>
    /\ pc = "construct"
    /\ i = 1
    /\ full_step = INFINITY
    /\ updates = <<>>
    /\ triggers = 0
    /\ calls = <<>>
    /\ applied = <<>>
    /\ derived = {}
    /\ StoreIdle

Init == Experiment({NoEmitStep})

\* while time < interval: collect the processes and derivers, prune front
TickStart ==
    /\ pc = "loop"
    /\ time < cfg.interval
    /\ \E ps \in {ProcessNodes(state, FALSE)} :
          /\ processes' = [k \in 1..Len(ps) |-> ps[k].path]
          /\ front' = SelectNodes(front,
                LAMBDA f : f.path \in {ps[k].path : k \in 1..Len(ps)})
          /\ pc' = IF ps = <<>> THEN "advance" ELSE "compute"
    /\ derivers' = fresh_derivers(state)
    /\ full_step' = INFINITY
    /\ i' = 1
    /\ snapshot' = state
    /\ UNCHANGED svars
    /\ UNCHANGED evars
    /\ UNCHANGED <<cfg, state, tombs, topology, oid, time, local_time,
                   updates, triggers, calls, applied, derived>>

\* one iteration of `for path, state in processes.items()`
Compute ==
    /\ pc = "compute"
    /\ LET path == processes[i]
           front1 == IF path \in FrontPaths(front) THEN front
                     ELSE Append(front, empty_front(path, time))
           process_time == FrontOf(front1, path).time
           future == future_of(process_time, local_timestep(path, cfg), cfg.interval)
           timestep == future - process_time
           next == IF i = Len(processes) THEN "advance" ELSE "compute"
       IN IF process_time <= time
          THEN \E divide \in BOOLEAN :
                 /\ divide => /\ KindOf(LastOf(path)) = "division"
                              /\ triggers < MaxTriggers
                 /\ triggers' = IF divide THEN triggers + 1 ELSE triggers
                 /\ \E r \in {process_update(W, path, timestep, divide, cfg)} :
                      IF r.err
                      THEN /\ pc' = "raised"
                           /\ front' = front1
                           /\ UNCHANGED <<state, full_step, calls>>
                      ELSE /\ pc' = next
                           /\ state' = r.st
                           /\ full_step' = Min(timestep, full_step)
                           /\ front' = [k \in 1..Len(front1) |->
                                 IF front1[k].path = path
                                 THEN [path |-> path, time |-> future,
                                       update |-> r.update]
                                 ELSE front1[k]]
                           /\ calls' = Append(calls,
                                 [path |-> path, at |-> time, dt |-> timestep,
                                  directive |-> r.directive])
          ELSE /\ pc' = next
               /\ front' = front1
               /\ UNCHANGED <<state, full_step, calls, triggers>>
    /\ i' = i + 1
    /\ UNCHANGED svars
    /\ UNCHANGED evars
    /\ UNCHANGED <<cfg, tombs, topology, oid, time, local_time,
                   processes, derivers, updates, snapshot,
                   applied, derived>>

\* if full_step == INFINITY: no process ran, jump to next process
\* (`path` is what the loop over processes left in it)
IdleSkip ==
    /\ pc = "advance"
    /\ full_step = INFINITY
    /\ LET path == processes[Len(processes)]
           next_event == IF front = <<>> THEN cfg.interval
                         ELSE Min(FrontOf(front, path).time, cfg.interval)
       IN time' = next_event
    /\ pc' = "loop"
    /\ UNCHANGED svars
    /\ UNCHANGED evars
    /\ UNCHANGED <<cfg, state, tombs, topology, oid, local_time, front,
                   processes, derivers, i, full_step, updates, triggers,
                   calls, snapshot, applied, derived>>

\* a front entry taken whatever its time
due_always(advance, future) == TRUE

\* if advance['time'] <= future
due(advance, future) == advance.time <= future

\* else: collect the front entries that are due at time + full_step
Collect ==
    /\ pc = "advance"
    /\ full_step # INFINITY
    /\ LET future == time + full_step
       IN /\ updates' = SelectNodes(front, LAMBDA f : due(f, future))
          /\ front' = [k \in 1..Len(front) |->
                IF due(front[k], future)
                THEN [front[k] EXCEPT !.update = <<>>] ELSE front[k]]
    /\ pc' = "apply"
    /\ i' = 1
    /\ UNCHANGED svars
    /\ UNCHANGED evars
    /\ UNCHANGED <<cfg, state, tombs, topology, oid, time, local_time,
                   processes, derivers, full_step, triggers, calls,
                   snapshot, applied, derived>>

LastCall(path) ==
    LET ks == {k \in 1..Len(calls) : calls[k].path = path}
    IN IF ks = {} THEN [path |-> path, at |-> 0, dt |-> 0, directive |-> ""]
       ELSE calls[CHOOSE k \in ks : \A j \in ks : j <= k]

\* send_updates: one iteration of `for update in updates`
Apply ==
    /\ pc = "apply"
    /\ i <= Len(updates)
    /\ \E w \in {apply_update(W, updates[i].update, cfg)} :
          /\ SetWorld(w)
          /\ pc' = IF w.err THEN "raised" ELSE "apply"
    /\ applied' = Append(applied,
          [path |-> updates[i].path, time |-> updates[i].time,
           at |-> time + full_step,
           empty |-> updates[i].update = <<>>,
           directive |-> LastCall(updates[i].path).directive])
    /\ i' = i + 1
    /\ UNCHANGED svars
    /\ UNCHANGED evars
    /\ UNCHANGED <<cfg, time, local_time, front, processes, derivers,
                   full_step, updates, triggers, calls, snapshot, derived>>

ApplyDone ==
    /\ pc = "apply"
    /\ i > Len(updates)
    /\ pc' = "derive"
    /\ i' = 1
    /\ derived' = {}
    /\ UNCHANGED svars
    /\ UNCHANGED evars
    /\ UNCHANGED <<cfg, state, tombs, topology, oid, time, local_time, front,
                   processes, derivers, full_step, updates, triggers,
                   calls, snapshot, applied>>

\* a store that was never marked deleted
never_deleted(node, marked) == FALSE

\* Store.deleted, set by mark_deleted() on a removed node and its inner nodes
is_deleted(node, marked) == node.oid \in marked

\* run_derivers: one iteration of `for path, deriver in derivers.items()`
Derive ==
    /\ pc \in {"construct", "derive"}
    /\ i <= Len(derivers)
    /\ LET d == derivers[i]
       IN IF is_deleted(d, tombs)
          THEN UNCHANGED <<state, tombs, topology, oid, pc, triggers, derived>>
          ELSE \E divide \in BOOLEAN :
                 /\ divide => /\ KindOf(LastOf(d.path)) = "division"
                              /\ triggers < MaxTriggers
                 /\ triggers' = IF divide THEN triggers + 1 ELSE triggers
                 /\ derived' = derived \cup {d.oid}
                 /\ \E r \in {process_update(W, d.path, 0, divide, cfg)} :
                    \E w \in {IF r.err THEN Raise(W)
                              ELSE apply_update(W, r.update, cfg)} :
                       /\ SetWorld(w)
                       /\ pc' = IF w.err THEN "raised" ELSE pc
    /\ i' = i + 1
    /\ UNCHANGED svars
    /\ UNCHANGED evars
    /\ UNCHANGED <<cfg, time, local_time, front, processes, derivers,
                   full_step, updates, calls, snapshot, applied>>

\* the end of __init__: emit_data(), and the experiment is ready for
\* update(interval)
Constructed ==
    /\ pc = "construct"
    /\ i > Len(derivers)
    /\ pc' = "loop"
    /\ i' = 1
    /\ emits' = Append(emits, local_time)
    /\ UNCHANGED <<emit_step, emit_time>>
    /\ UNCHANGED svars
    /\ UNCHANGED <<cfg, state, tombs, topology, oid, time, local_time, front,
                   processes, derivers, full_step, updates, triggers,
                   calls, snapshot, applied, derived>>

\* how often `while emit_time <= time` runs its body
emissions(from, step, now) ==
    IF from <= now THEN (now - from) \div step + 1 ELSE 0

\* time = future; self.local_time += full_step; then emit_data() once when
\* no emit_step is set, else once for every emit_time up to the new time,
\* each snapshot tagged with self.local_time
Advance ==
    /\ pc = "derive"
    /\ i > Len(derivers)
    /\ time' = time + full_step
    /\ local_time' = local_time + full_step
    /\ IF emit_step = NoEmitStep
       THEN /\ emits' = Append(emits, local_time + full_step)
            /\ emit_time' = emit_time
       ELSE \E n \in {emissions(emit_time, emit_step, time + full_step)} :
               /\ emits' = emits \o [k \in 1..n |-> local_time + full_step]
               /\ emit_time' = emit_time + n * emit_step
    /\ UNCHANGED emit_step
    /\ pc' = "loop"
    /\ i' = 1
    /\ UNCHANGED svars
    /\ UNCHANGED <<cfg, state, tombs, topology, oid, front, processes,
                   derivers, full_step, updates, triggers, calls, snapshot,
                   applied, derived>>

\* the loop is left and the two assertions are evaluated
Finish ==
    /\ pc = "loop"
    /\ time >= cfg.interval
    /\ pc' = IF \A k \in 1..Len(front) :
                   /\ front[k].time = time
                   /\ time = cfg.interval
                   /\ Len(front[k].update) = 0
             THEN "done" ELSE "assertion"
    /\ UNCHANGED svars
    /\ UNCHANGED evars
    /\ UNCHANGED <<cfg, state, tombs, topology, oid, time, local_time, front,
                   processes, derivers, i, full_step, updates, triggers,
                   calls, snapshot, applied, derived>>

Next ==
    \/ TickStart
    \/ Compute
    \/ IdleSkip
    \/ Collect
    \/ Apply
    \/ ApplyDone
    \/ Derive
    \/ Constructed
    \/ Advance
    \/ Finish

Spec == Init /\ [][Next]_vars

\* update() on a fixed set of processes (no process deletes, generates or
\* divides); the loop is sequential code: a step that can be taken is taken
FixedSet == cfg \in TimescaleConfigs \cup {ScenarioB}

FixedInit == Init /\ FixedSet

FixedSpec == FixedInit /\ [][Next]_vars /\ WF_vars(Next)

\* update() with an emit_step of 1 to MaxEmitStep on the processes of
\* test_timescales, with the timesteps and the intervals of Configs
MaxEmitStep == 2
EmitInit == Experiment(1..MaxEmitStep) /\ cfg \in TimescaleConfigs

EmitSpec == EmitInit /\ [][Next]_vars

\* ------------------------------------------------------- the Store in detail
\* Values: None, an int, a numpy array of more than one element, a dict (its
\* items in insertion order) and a process object, in one record shape.
NoneV == [t |-> "none", hi |-> 0, n |-> 0, items |-> <<>>]
IntV(n) == [t |-> "int", hi |-> 0, n |-> n, items |-> <<>>]
ArrayV(n) == [t |-> "array", hi |-> 0, n |-> n, items |-> <<>>]
ProcV(n) == [t |-> "proc", hi |-> 0, n |-> n, items |-> <<>>]
DictV(items) == [t |-> "dict", hi |-> 0, n |-> 0, items |-> items]
\* An int too wide for a float's 53 significant bits is kept in two parts:
\* BigV(hi, n) is hi * 2^52 + n, with n small against 2^52.
BigV(hi, n) == [t |-> "int", hi |-> hi, n |-> n, items |-> <<>>]
Item(key, val) == [key |-> key, val |-> val]

\* `a != b` inside an `if`: an array on either side makes the test raise
Ambiguous(a, b) == a.t = "array" \/ b.t = "array"

\* A config dict: keys holds the reserved keys that are present, the fields
\* their values, kids the remaining entries (key, cfg) in insertion order.
schema_keys == {"_default", "_updater", "_value", "_properties", "_emit",
                "_serializer"}

NoConfig == [keys |-> {}, default |-> NoneV, value |-> NoneV, updater |-> "",
             emit |-> FALSE, divider |-> "", star |-> <<>>,
             subschema |-> <<>>, kids |-> <<>>]
Kid(key, c) == [key |-> key, cfg |-> c]
IsEmpty(c) == c.keys = {} /\ c.kids = <<>>
KidKeys(c) == {c.kids[k].key : k \in 1..Len(c.kids)}
KidOf(c, key) == c.kids[CHOOSE k \in 1..Len(c.kids) : c.kids[k].key = key].cfg

\* deep_merge on two schema dicts: the second is merged into the first key
\* by key, dicts recursively, the second winning on any other conflict
RECURSIVE deep_merge_schema(_, _)
deep_merge_schema(dct, merge_dct) ==
    LET has(c, k) == k \in c.keys
        pick(k, a, b) == IF has(merge_dct, k) THEN b ELSE a
        both(k) == has(dct, k) /\ has(merge_dct, k)
        kept == [k \in 1..Len(dct.kids) |->
                      LET r == dct.kids[k]
                      IN IF r.key \in KidKeys(merge_dct)
                         THEN Kid(r.key,
                                  deep_merge_schema(r.cfg,
                                      KidOf(merge_dct, r.key)))
                         ELSE r]
        added == SelectNodes(merge_dct.kids,
                     LAMBDA r : r.key \notin KidKeys(dct))
    IN [keys |-> dct.keys \cup merge_dct.keys,
        default |-> pick("_default", dct.default, merge_dct.default),
        value |-> pick("_value", dct.value, merge_dct.value),
        updater |-> pick("_updater", dct.updater, merge_dct.updater),
        emit |-> pick("_emit", dct.emit, merge_dct.emit),
        divider |-> pick("_divider", dct.divider, merge_dct.divider),
        star |-> IF both("*")
                 THEN deep_merge_schema(dct.star, merge_dct.star)
                 ELSE pick("*", dct.star, merge_dct.star),
        subschema |-> IF both("_subschema")
                      THEN deep_merge_schema(dct.subschema,
                                             merge_dct.subschema)
                      ELSE pick("_subschema", dct.subschema,
                                merge_dct.subschema),
        kids |-> kept \o added]

\* A node of the Store: Store.__init__ before apply_config
Store(p) == [path |-> p, leaf |-> FALSE, value |-> NoneV, default |-> NoneV,
             updater |-> "", divider |-> "", emit |-> FALSE,
             subschema |-> NoConfig, deleted |-> FALSE]

\* The Store an operation works on: the tree, the nodes detached from it,
\* whether the operation raised, the path of the node it returns, the
\* paths of the topology updates it returns and the data it returns.
Tree(st) ==
    [st |-> st, lost |-> <<>>, err |-> FALSE, ret |-> None, tu |-> {},
     out |-> NoneV]
Fail(w) == [w EXCEPT !.err = TRUE]
With(w, st) == [w EXCEPT !.st = st]

Present(st, p) == \E k \in 1..Len(st) : st[k].path = p
Subtree(st, p) == SelectNodes(st, LAMBDA r : IsPrefix(p, r.path))
Detach(st, p) == SelectNodes(st, LAMBDA r : ~IsPrefix(p, r.path))
Children(st, p) == SelectNodes(st,
    LAMBDA r : Len(r.path) = Len(p) + 1 /\ IsPrefix(p, r.path))

\* the default declared last is taken
check_default_latest(node, new_default) == [err |-> FALSE, v |-> new_default]

\* check_default: [raises, result]
check_default(node, new_default) ==
    IF node.default = NoneV THEN [err |-> FALSE, v |-> new_default]
    ELSE IF Ambiguous(new_default, node.default)
    THEN [err |-> TRUE, v |-> node.default]
    ELSE IF new_default # node.default
            /\ new_default = IntV(0) /\ node.default # IntV(0)
    THEN [err |-> FALSE, v |-> node.default]
    ELSE [err |-> FALSE, v |-> new_default]

\* check_value: [raises, result]
check_value(node, new_value) ==
    IF node.value = NoneV THEN [err |-> FALSE, v |-> new_value]
    ELSE IF Ambiguous(new_value, node.value) \/ new_value # node.value
    THEN [err |-> TRUE, v |-> node.value]
    ELSE [err |-> FALSE, v |-> new_value]

RECURSIVE apply_config(_, _, _)
RECURSIVE apply_config_inner(_, _, _)
RECURSIVE apply_config_node(_, _, _, _)

\* the loop over config.items() of a branch config
apply_config_inner(w, at, kids) ==
    IF kids = <<>> \/ w.err THEN w
    ELSE LET p == Append(at, Head(kids).key)
             fresh == ~Present(w.st, p)
             \* a child that fails while Store(child) is built is never
             \* assigned to inner[key]
             assigned(w1) == IF w1.err /\ fresh THEN Fail(w) ELSE w1
         IN apply_config_inner(
                assigned(apply_config(
                    IF fresh THEN With(w, PutNode(w.st, Store(p))) ELSE w,
                    p, Head(kids).cfg)),
                at, Tail(kids))

\* the block of apply_config for a config with schema keys; n2 is the node
\* with its leaf flag set
apply_config_leaf(w, at, config, n2) ==
    LET has(k) == k \in config.keys
        resolved(n4) ==
            [n4 EXCEPT !.updater = IF has("_updater") THEN config.updater
                                   ELSE IF @ # "" THEN @ ELSE "accumulate",
                       !.emit = IF has("_emit") THEN config.emit ELSE @]
        valued(n3, v) ==
            IF has("_value") /\ v.err THEN Fail(With(w, SetNode(w.st, n3)))
            ELSE With(w, SetNode(w.st,
                     resolved(IF has("_value") THEN [n3 EXCEPT !.value = v.v]
                              ELSE n3)))
        value(n3) == valued(n3, check_value(n3, config.value))
        defaulted(d) ==
            IF has("_default") /\ d.err
            THEN Fail(With(w, SetNode(w.st, n2)))
            ELSE value(IF has("_default") THEN [n2 EXCEPT !.default = d.v]
                       ELSE n2)
    IN defaulted(check_default(n2, config.default))

\* apply_config once the subschema and the divider are taken from the
\* config; n1 is the node with both
apply_config_node(w, at, config, n1) ==
    IF schema_keys \cap config.keys # {}
    THEN IF HasInner(w.st, at) THEN Fail(With(w, SetNode(w.st, n1)))
         ELSE apply_config_leaf(With(w, SetNode(w.st, n1)), at, config,
                                [n1 EXCEPT !.leaf = TRUE])
    ELSE IF n1.leaf /\ config.kids # <<>>
    THEN Fail(With(w, SetNode(w.st, n1)))
    ELSE apply_config_inner(
             With(w, SetNode(w.st, [n1 EXCEPT !.value = NoneV])),
             at, config.kids)

apply_config(w, at, config) ==
    LET has(k) == k \in config.keys
        star(s) == IF has("*") THEN deep_merge_schema(s, config.star) ELSE s
        subschema(s) == IF has("_subschema")
                        THEN deep_merge_schema(s, config.subschema) ELSE s
    IN apply_config_node(w, at, config,
           [NodeAt(w.st, at) EXCEPT
               !.subschema = subschema(star(@)),
               !.divider = IF has("_divider") THEN config.divider ELSE @])

\* establish_path: walk the path creating the missing nodes, apply the config
\* to the node reached and return it
RECURSIVE Store_establish_path(_, _, _, _)
Store_establish_path(w, base, path, config) ==
    IF path = <<>>
    THEN LET reached(w1) == IF w1.err THEN w1 ELSE [w1 EXCEPT !.ret = base]
         IN reached(apply_config(w, base, config))
    ELSE IF Head(path) = ".."
    THEN IF base = <<>> THEN Fail(w)
         ELSE Store_establish_path(w, ButLast(base), Tail(path), config)
    ELSE LET p == Append(base, Head(path))
         IN Store_establish_path(
                IF Present(w.st, p) THEN w
                ELSE With(w, PutNode(w.st, Store(p))),
                p, Tail(path), config)

\* a lookup that creates what it does not find
get_path_or_create(w, base, path) ==
    Store_establish_path(w, base, path, NoConfig)

\* get_path as a call on the Store: the node reached, or None, is returned
\* and nothing else of the Store is touched
Store_get_path(w, base, path) ==
    [w EXCEPT !.ret = get_path(w.st, base, path)]

\* mark_deleted on the subtree at p, which then leaves the tree
mark_deleted(st, p) ==
    LET lost == Subtree(st, p)
    IN [k \in 1..Len(lost) |-> [lost[k] EXCEPT !.deleted = TRUE]]

\* delete_path relative to base: the empty path empties the node and returns
\* it; otherwise the last step is removed from the node at path[:-1]
Store_delete_path(w, base, path) ==
    IF path = <<>>
    THEN LET below == SelectNodes(w.st,
                 LAMBDA r : IsPrefix(base, r.path) /\ r.path # base)
             st1 == SelectNodes(w.st,
                 LAMBDA r : ~IsPrefix(base, r.path) \/ r.path = base)
         IN [w EXCEPT !.st = SetNode(st1,
                                 [NodeAt(st1, base) EXCEPT !.value = NoneV]),
                      !.lost = @ \o below,
                      !.ret = base]
    ELSE LET target == get_path(w.st, base, ButLast(path))
             p == Append(target, LastOf(path))
         IN IF target = None THEN Fail(w)
            ELSE IF LastOf(path) # ".." /\ Present(w.st, p)
            THEN [w EXCEPT !.st = Detach(w.st, p),
                           !.lost = @ \o mark_deleted(w.st, p),
                           !.ret = p]
            ELSE [w EXCEPT !.ret = None]

\* set_value: a node with children or a subschema hands the entries of the
\* dict to its children, creating them from the subschema; any other node
\* stores the value
RECURSIVE Store_set_value(_, _, _)
RECURSIVE set_value_items(_, _, _)

set_value_items(w, at, items) ==
    IF items = <<>> \/ w.err THEN w
    ELSE LET p == Append(at, Head(items).key)
             \* a child the subschema fails to configure is never assigned
             created(w2) == IF w2.err THEN Fail(w) ELSE w2
             set(w1) == IF ~w1.err /\ Present(w1.st, p)
                        THEN Store_set_value(w1, p, Head(items).val)
                        ELSE w1
         IN set_value_items(
                set(IF ~Present(w.st, p) /\ ~IsEmpty(NodeAt(w.st, at).subschema)
                    THEN created(apply_config(
                             With(w, PutNode(w.st, Store(p))), p,
                             NodeAt(w.st, at).subschema))
                    ELSE w),
                at, Tail(items))

Store_set_value(w, at, value) ==
    IF w.err THEN w
    ELSE IF HasInner(w.st, at) \/ ~IsEmpty(NodeAt(w.st, at).subschema)
    THEN IF value.t # "dict" THEN Fail(w)
         ELSE set_value_items(w, at, value.items)
    ELSE With(w, SetNode(w.st, [NodeAt(w.st, at) EXCEPT !.value = value]))

\* apply_defaults: every node without children whose value is None takes
\* its default
apply_defaults(st, at) ==
    [k \in 1..Len(st) |->
        IF IsPrefix(at, st[k].path) /\ st[k].value = NoneV
           /\ ~(k < Len(st) /\ IsPrefix(st[k].path, st[k + 1].path))
        THEN [st[k] EXCEPT !.value = st[k].default]
        ELSE st[k]]

\* the call self.apply_defaults() as a step of a sequence of calls
Store_apply_defaults(w, at) ==
    IF w.err THEN w ELSE With(w, apply_defaults(w.st, at))

\* get_value: a node with children gives the dict of the values of the
\* children that pass the condition (every child, or the ones that hold no
\* process); a childless node with a subschema gives {}, any other its value
RECURSIVE get_value(_, _, _)
get_value(st, at, no_process) ==
    IF HasInner(st, at)
    THEN LET ch == SelectNodes(Children(st, at),
                       LAMBDA r : ~(no_process /\ r.value.t = "proc"))
         IN DictV([k \in 1..Len(ch) |->
                      Item(LastOf(ch[k].path),
                           get_value(st, ch[k].path, no_process))])
    ELSE IF ~IsEmpty(NodeAt(st, at).subschema) THEN DictV(<<>>)
    ELSE NodeAt(st, at).value

\* NumpySerializer.serialize: data.tolist(), which only an array has; a node
\* has the numpy serializer when its default is an array
ListV(n) == [t |-> "list", hi |-> 0, n |-> n, items |-> <<>>]
RaisedV == [t |-> "raised", hi |-> 0, n |-> 0, items |-> <<>>]
serialize(v) == IF v.t = "array" THEN ListV(v.n) ELSE RaisedV

\* emit_data: a node with children gives the dict of what its children give,
\* without the children that give None; a childless node gives its value if
\* its emit flag is set (serialized, or {} for a process) and None otherwise
RECURSIVE emit_data(_, _)
emit_data(st, at) ==
    IF HasInner(st, at)
    THEN LET ch == Children(st, at)
             child_data == [k \in 1..Len(ch) |->
                               Item(LastOf(ch[k].path),
                                    emit_data(st, ch[k].path))]
         IN IF \E k \in 1..Len(ch) : child_data[k].val = RaisedV
            THEN RaisedV
            ELSE DictV(SelectSeq(child_data, LAMBDA it : it.val # NoneV))
    ELSE IF ~NodeAt(st, at).emit THEN NoneV
    ELSE IF NodeAt(st, at).default.t = "array"
    THEN serialize(NodeAt(st, at).value)
    ELSE IF NodeAt(st, at).value.t = "proc" THEN DictV(<<>>)
    ELSE NodeAt(st, at).value

\* emit_data as a call on the Store
Store_emit_data(w, at) ==
    IF emit_data(w.st, at) = RaisedV THEN Fail(w)
    ELSE [w EXCEPT !.out = emit_data(w.st, at)]

\* A topology is a dict from port to path: its entries in insertion order
Wire(port, path) == [port |-> port, path |-> path]
WirePorts(wiring) == {wiring[k].port : k \in 1..Len(wiring)}
WireOf(wiring, port) ==
    IF port \in WirePorts(wiring)
    THEN wiring[CHOOSE k \in 1..Len(wiring) :
                      wiring[k].port = port].path
    ELSE <<port>>

RECURSIVE Store_topology_ports(_, _, _, _)
RECURSIVE topology_ports_items(_, _, _, _)
RECURSIVE apply_subschema(_, _)
RECURSIVE apply_subschema_inner(_, _, _)

\* the loop over schema.items(): one establish_path per port
topology_ports_items(w, at, kids, wiring) ==
    IF kids = <<>> \/ w.err THEN w
    ELSE topology_ports_items(
             Store_establish_path(w, at, WireOf(wiring, Head(kids).key),
                                  Head(kids).cfg),
             at, Tail(kids), wiring)

\* topology_ports with tuple paths: a schema of reserved keys configures the
\* node itself, any other is distributed port by port; the port '*' makes
\* the node it is wired to a wildcard node
Store_topology_ports(w, at, schema, wiring) ==
    IF schema.keys \cap schema_keys # {}
    THEN apply_config(w, at, schema)
    ELSE IF WirePorts(wiring) \ (KidKeys(schema) \cup schema.keys) # {}
    THEN Fail(w)
    ELSE LET wildcard(w2) ==
                 IF w2.err THEN w2
                 ELSE Store_apply_defaults(apply_subschema(w2, w2.ret), w2.ret)
         IN topology_ports_items(
                IF "*" \in schema.keys
                THEN wildcard(Store_establish_path(w, at, WireOf(wiring, "*"),
                                  [NoConfig EXCEPT
                                      !.keys = {"_subschema"},
                                      !.subschema = schema.star]))
                ELSE w,
                at, schema.kids, wiring)

apply_subschema_inner(w, subschema, children) ==
    IF children = <<>> \/ w.err THEN w
    ELSE apply_subschema_inner(
             Store_topology_ports(w, Head(children).path, subschema, <<>>),
             subschema, Tail(children))

\* apply_subschema: the node's subschema goes to each of its children
apply_subschema(w, at) ==
    apply_subschema_inner(w, NodeAt(w.st, at).subschema, Children(w.st, at))

\* apply_subschemas: every node at or below `at` that has a subschema, in
\* depth-first order; the nodes a subschema creates are visited in their turn
RECURSIVE apply_subschemas_from(_, _, _)
apply_subschemas_from(w, at, k) ==
    IF w.err \/ k > Len(w.st) THEN w
    ELSE IF ~IsPrefix(at, w.st[k].path) THEN w
    ELSE apply_subschemas_from(
             IF ~IsEmpty(w.st[k].subschema)
             THEN apply_subschema(w, w.st[k].path) ELSE w,
             at, k + 1)

apply_subschemas(w, at) == apply_subschemas_from(w, at, IndexOf(w.st, at))

\* A processes dict with its wiring: entries (key, id, schema, wiring)
\* in insertion order, each a Process with its ports_schema() and wiring.
Process(key, id, schema, wiring) ==
    [key |-> key, id |-> id, schema |-> schema, topology |-> wiring]

\* generate_paths: the process node is assigned to inner[key], then the
\* ports of the process are distributed from this node
RECURSIVE Store_generate_paths(_, _, _)
Store_generate_paths(w, at, procs) ==
    IF procs = <<>> \/ w.err THEN w
    ELSE LET pr == Head(procs)
             node == [Store(Append(at, pr.key)) EXCEPT
                         !.leaf = TRUE, !.value = ProcV(pr.id),
                         !.updater = "set"]
             w1 == With(w, PutNode(w.st, node))
         IN Store_generate_paths(
                Store_topology_ports(w1, at, pr.schema, pr.topology),
                at, Tail(procs))

\* generate once the path is established: generate the processes' paths at
\* the target, set the initial state, apply the subschemas and the defaults
Store_generate_at(w, procs, initial) ==
    IF w.err THEN w
    ELSE Store_apply_defaults(
             apply_subschemas(
                 Store_set_value(Store_generate_paths(w, w.ret, procs),
                                 w.ret, initial),
                 w.ret),
             w.ret)

\* generate: establish the path, then the rest at the node it gives
Store_generate(w, base, path, procs, initial) ==
    Store_generate_at(Store_establish_path(w, base, path, NoConfig),
                      procs, initial)

\* --------------------------------------------------- updaters and dividers
OtherV == [t |-> "other", hi |-> 0, n |-> 0, items |-> <<>>]

ItemKeys(items) == {items[k].key : k \in 1..Len(items)}
ItemOf(items, key) ==
    items[CHOOSE k \in 1..Len(items) : items[k].key = key].val

\* an updater that returns the new value
update_replace(current_value, new_value) == [err |-> FALSE, v |-> new_value]

\* updater(current_value, new_value): [raises, result]
update_accumulate(current_value, new_value) ==
    IF current_value.t = "int" /\ new_value.t = "int"
    THEN [err |-> FALSE, v |-> BigV(current_value.hi + new_value.hi,
                                    current_value.n + new_value.n)]
    ELSE IF {current_value.t, new_value.t} \in {{"array"}, {"array", "int"}}
    THEN [err |-> FALSE, v |-> ArrayV(current_value.n + new_value.n)]
    ELSE [err |-> TRUE, v |-> current_value]

update_set(current_value, new_value) == [err |-> FALSE, v |-> new_value]

updater_library(updater, current_value, new_value) ==
    IF updater = "accumulate"
    THEN update_accumulate(current_value, new_value)
    ELSE IF updater = "set" THEN update_set(current_value, new_value)
    ELSE [err |-> TRUE, v |-> current_value]

\* a divider's result: whether it raised and the two shares
Shares(a, b) == [err |-> FALSE, none |-> FALSE, a |-> a, b |-> b]
NoShares == [err |-> FALSE, none |-> TRUE, a |-> NoneV, b |-> NoneV]
BadShares == [err |-> TRUE, none |-> TRUE, a |-> NoneV, b |-> NoneV]

divide_set(value) == Shares(value, value)

\* int(state / 2): the true division rounds the quotient to a float (to the
\* nearest, ties to even), int() truncates toward zero. Below 2^53 the
\* quotient is exact; from 2^53 to 2^54 it is rounded to an integer.
int_half(value) ==
    IF value.hi = 0
    THEN IF value.n >= 0 THEN IntV(value.n \div 2)
         ELSE IntV(-((-value.n) \div 2))
    ELSE LET low == value.n \div 2
         IN BigV(value.hi \div 2,
                 IF value.n % 2 = 0 \/ low % 2 = 0 THEN low ELSE low + 1)

\* divide_split on an int: first says which way random.choice fell
divide_split(value, first) ==
    IF value.t = "int"
    THEN LET remainder == value.n % 2
             half == int_half(value)
             more == BigV(half.hi, half.n + remainder)
         IN IF first THEN Shares(more, half) ELSE Shares(half, more)
    ELSE BadShares

divide_zero(value) == Shares(IntV(0), IntV(0))

divide_split_dict(value) ==
    IF value.t \notin {"none", "dict"} THEN BadShares
    ELSE LET items == value.items
             half == Len(items) \div 2
         IN Shares(DictV(SubSeq(items, half + 1, Len(items))),
                   DictV(SubSeq(items, 1, half)))

\* a divider given as a function instead of a library name, here
\* `lambda state: [{key: 0 for key in state}, {}]`: the first daughter gets
\* every entry, reset to 0, the second none
divide_reset_first(value) ==
    IF value.t \notin {"none", "dict"} THEN BadShares
    ELSE Shares(DictV([k \in 1..Len(value.items) |->
                          Item(value.items[k].key, IntV(0))]),
                DictV(<<>>))

divider_library(divider, value, first) ==
    IF divider = "set" THEN divide_set(value)
    ELSE IF divider = "split" THEN divide_split(value, first)
    ELSE IF divider = "zero" THEN divide_zero(value)
    ELSE IF divider = "split_dict" THEN divide_split_dict(value)
    ELSE IF divider = "reset_first" THEN divide_reset_first(value)
    ELSE BadShares

\* divide_value: a node with a divider divides its value; a node with
\* children collects the divisions of its children; any other gives None.
\* heads holds the paths at which random.choice gives the first daughter
\* the remainder.
RECURSIVE divide_value(_, _, _)
RECURSIVE divide_value_inner(_, _, _, _)

divide_value_inner(st, children, heads, daughters) ==
    IF children = <<>> \/ daughters.err THEN daughters
    ELSE LET key == LastOf(Head(children).path)
             division == divide_value(st, Head(children).path, heads)
         IN divide_value_inner(st, Tail(children), heads,
                IF division.err THEN BadShares
                ELSE IF division.none THEN daughters
                ELSE Shares(
                    DictV(Append(daughters.a.items, Item(key, division.a))),
                    DictV(Append(daughters.b.items, Item(key, division.b)))))

divide_value(st, at, heads) ==
    IF NodeAt(st, at).divider # ""
    THEN divider_library(NodeAt(st, at).divider, get_value(st, at, FALSE),
                         at \in heads)
    ELSE IF HasInner(st, at)
    THEN divide_value_inner(st, Children(st, at), heads,
                            Shares(DictV(<<>>), DictV(<<>>)))
    ELSE NoShares

\* deep_merge on two values: the entries of the second dict are merged into
\* the first, dicts recursively, the second winning on any other conflict
RECURSIVE deep_merge(_, _)
deep_merge(dct, merge_dct) ==
    LET base == IF dct.t = "none" THEN <<>> ELSE dct.items
        into(val, key) ==
            IF val.t = "dict" /\ ItemOf(merge_dct.items, key).t = "dict"
            THEN deep_merge(val, ItemOf(merge_dct.items, key))
            ELSE ItemOf(merge_dct.items, key)
        kept == [k \in 1..Len(base) |->
                    IF base[k].key \in ItemKeys(merge_dct.items)
                    THEN Item(base[k].key, into(base[k].val, base[k].key))
                    ELSE base[k]]
        added == SelectNodes(merge_dct.items,
                     LAMBDA r : r.key \notin ItemKeys(base))
    IN DictV(kept \o added)

Mergeable(dct, merge_dct) ==
    dct.t \in {"none", "dict"} /\ merge_dct.t = "dict"

\* ------------------------------------------------------- Store.apply_update
\* An update is a value or a dict. Of a dict, has holds the directive keys
\* that are present and order the same keys as the dict lists them; delete,
\* add, generate and divide are their values and items the ordinary entries
\* (key, upd) in insertion order.
NoUpdate == [t |-> "dict", v |-> NoneV, has |-> {}, order |-> <<>>,
             delete |-> <<>>, add |-> <<>>, generate |-> <<>>,
             divide |-> <<>>, updater |-> "", items |-> <<>>]
ValueU(v) == [NoUpdate EXCEPT !.t = "value", !.v = v]
Entry(key, upd) == [key |-> key, upd |-> upd]
Added(path, value) == [path |-> path, state |-> value]
Generate(path, procs, initial) ==
    [path |-> path, processes |-> procs, initial_state |-> initial]
Daughter(daughter, path, procs, initial) ==
    [daughter |-> daughter, path |-> path, processes |-> procs,
     initial_state |-> initial]
Divide(mother, daughters) == [mother |-> mother, daughters |-> daughters]

\* the update as the value it is when handed to set_value
RECURSIVE ValueOf(_)
ValueOf(upd) ==
    IF upd.t = "value" THEN upd.v
    ELSE DictV([k \in 1..Len(upd.order) |-> Item(upd.order[k], OtherV)]
               \o [k \in 1..Len(upd.items) |->
                      Item(upd.items[k].key, ValueOf(upd.items[k].upd))])

\* `key not in removing` with a string for removing is a substring test: of
\* the keys used here, "e" and "d" are substrings of a directive's name
Within(key, removing) ==
    \/ key = removing
    \/ key = "e" /\ removing \in {"_generate", "_divide"}
    \/ key = "d" /\ removing = "_divide"

dissoc(items, removing) ==
    SelectNodes(items, LAMBDA r : ~Within(r.key, removing))

\* the sequence of `if '_x' in update` blocks
directive_order_given(upd) == upd.order

directive_order(upd) == <<"_delete", "_add", "_generate", "_divide">>

Rebase(key, tu) == {<<key>> \o q : q \in tu}

RECURSIVE Store_apply_update(_, _, _, _)
RECURSIVE apply_deletes(_, _, _)
RECURSIVE apply_adds(_, _, _)
RECURSIVE apply_generates(_, _, _)
RECURSIVE apply_daughters(_, _, _, _, _)
RECURSIVE apply_directives(_, _, _, _, _)
RECURSIVE apply_items(_, _, _, _)

apply_deletes(w, at, paths) ==
    IF paths = <<>> \/ w.err THEN w
    ELSE apply_deletes(Store_delete_path(w, at, Head(paths)), at, Tail(paths))

apply_adds(w, at, adds) ==
    IF adds = <<>> \/ w.err THEN w
    ELSE LET set(w1) == IF w1.err THEN w1
                        ELSE Store_set_value(w1, w1.ret, Head(adds).state)
         IN apply_adds(
                set(Store_establish_path(w, at, Head(adds).path, NoConfig)),
                at, Tail(adds))

\* assoc_path(topology_updates, path, topology): nothing for the empty path
Assoc(w, path) == IF path = <<>> THEN w ELSE [w EXCEPT !.tu = @ \cup {path}]

apply_generates(w, at, generates) ==
    IF generates = <<>> \/ w.err THEN w
    ELSE LET g == Head(generates)
             assoc(w1) == IF w1.err THEN w1 ELSE Assoc(w1, g.path)
         IN apply_generates(
                assoc(Store_generate(w, at, g.path, g.processes,
                                     g.initial_state)),
                at, Tail(generates))

\* the loop over zip(daughters, states) of `_divide`
apply_daughters(w, at, daughters, states, initial) ==
    IF daughters = <<>> \/ states = <<>> \/ w.err THEN w
    ELSE LET d == Head(daughters)
             id == Append(at, d.daughter)
             assoc(w1) == IF w1.err THEN w1 ELSE Assoc(w1, d.path)
             set(w2) ==
                 IF w2.err THEN w2
                 ELSE IF ~Present(w2.st, id) THEN Fail(w2)
                 ELSE Store_set_value(w2, id,
                                      deep_merge(initial, Head(states)))
         IN IF ~Mergeable(initial, Head(states)) THEN Fail(w)
            ELSE apply_daughters(
                     Store_apply_defaults(
                         set(apply_subschemas(
                                 assoc(Store_generate(w, at, d.path,
                                           d.processes, d.initial_state)),
                                 at)),
                         at),
                     at, Tail(daughters), Tail(states),
                     deep_merge(initial, Head(states)))

\* one directive block of apply_update
apply_directive(w, at, upd, directive, heads) ==
    IF directive = "_delete" THEN apply_deletes(w, at, upd.delete)
    ELSE IF directive \in {"_add", "_generate"}
    THEN Store_apply_defaults(
             apply_subschemas(IF directive = "_add"
                              THEN apply_adds(w, at, upd.add)
                              ELSE apply_generates(w, at, upd.generate),
                              at),
             at)
    ELSE LET mother == Append(at, upd.divide.mother)
             states == divide_value(w.st, mother, heads)
             deleted(w1) ==
                 IF w1.err THEN w1
                 ELSE Store_delete_path(w1, at, <<upd.divide.mother>>)
         IN IF ~Present(w.st, mother) THEN Fail(w)
            ELSE IF states.err \/ states.none THEN Fail(w)
            ELSE deleted(apply_daughters(w, at, upd.divide.daughters,
                                         <<states.a, states.b>>,
                                         get_value(w.st, mother, TRUE)))

apply_directives(w, at, upd, directives, heads) ==
    IF directives = <<>> \/ w.err THEN w
    ELSE apply_directives(
             IF Head(directives) \in upd.has
             THEN apply_directive(w, at, upd, Head(directives), heads)
             ELSE w,
             at, upd, Tail(directives), heads)

\* the loop over the remaining keys of the update
apply_items(w, at, items, heads) ==
    IF items = <<>> \/ w.err THEN w
    ELSE LET key == Head(items).key
             p == Append(at, key)
             rebased(w1) == [w1 EXCEPT !.tu = w.tu \cup Rebase(key, w1.tu)]
             \* a child the subschema fails to configure is never assigned
             created(w1) == IF w1.err THEN Fail(w) ELSE w1
         IN apply_items(
                IF Present(w.st, p)
                THEN rebased(Store_apply_update([w EXCEPT !.tu = {}], p,
                                                Head(items).upd, heads))
                ELSE IF IsEmpty(NodeAt(w.st, at).subschema) THEN w
                ELSE Store_apply_defaults(
                         Store_set_value(
                             created(apply_config(
                                 With(w, PutNode(w.st, Store(p))), p,
                                 NodeAt(w.st, at).subschema)),
                             p, ValueOf(Head(items).upd)),
                         p),
                at, Tail(items), heads)

\* get_updater: the updater an update names, or the one the node is
\* configured with
get_updater(node, upd) ==
    IF upd.t = "dict" /\ "_updater" \in upd.has THEN upd.updater
    ELSE node.updater

\* the value handed to the updater: `_value` (or the default) of an update
\* that names an updater, the update itself otherwise
update_value(node, upd) ==
    IF upd.t = "dict" /\ "_updater" \in upd.has
    THEN (IF "_value" \in upd.has THEN upd.v ELSE node.default)
    ELSE ValueOf(upd)

\* a leaf whose updater becomes the one the update names
update_leaf_kept(node, upd) ==
    [err |-> updater_library(get_updater(node, upd), node.value,
                             update_value(node, upd)).err,
     node |-> [node EXCEPT
                  !.updater = get_updater(node, upd),
                  !.value = updater_library(get_updater(node, upd),
                                node.value, update_value(node, upd)).v]]

\* the leaf branch of apply_update: [raises, the node after]; the updater
\* is a local of the call
update_leaf(node, upd) ==
    [err |-> updater_library(get_updater(node, upd), node.value,
                             update_value(node, upd)).err,
     node |-> [node EXCEPT
                  !.value = updater_library(get_updater(node, upd),
                                node.value, update_value(node, upd)).v]]

\* apply_update on the node at `at`; heads holds the paths at which
\* random.choice gives the first daughter the remainder
Store_apply_update(w, at, upd, heads) ==
    LET node == NodeAt(w.st, at)
        updated(r) ==
            IF r.err THEN Fail(w) ELSE With(w, SetNode(w.st, r.node))
    IN IF HasInner(w.st, at) \/ ~IsEmpty(node.subschema)
       THEN IF upd.t # "dict" THEN Fail(w)
            ELSE apply_items(
                     apply_directives(w, at, upd, directive_order(upd), heads),
                     at,
                     IF "_divide" \in upd.has
                     THEN dissoc(IF "_generate" \in upd.has
                                 THEN dissoc(upd.items, "_generate")
                                 ELSE upd.items,
                                 "_divide")
                     ELSE IF "_generate" \in upd.has
                     THEN dissoc(upd.items, "_generate")
                     ELSE upd.items,
                     heads)
       ELSE updated(update_leaf(node, upd))

\* ------------------------------------------------ the states a process is given
\* One leaf of the states dict handed to next_update: the keys that lead to
\* it in the dict, the node whose value it is, and whether the value is the
\* node's own object (get_value returns self.value) or a dict built by
\* get_value
ViewLeaf(keys, node, own) == [keys |-> keys, node |-> node, own |-> own]
NoView == [err |-> FALSE, leaves |-> <<>>]
BadView == [err |-> TRUE, leaves |-> <<>>]
Join(a, b) == [err |-> a.err \/ b.err, leaves |-> a.leaves \o b.leaves]

RECURSIVE schema_topology(_, _, _, _, _)
RECURSIVE schema_topology_items(_, _, _, _, _)
RECURSIVE schema_topology_star(_, _, _, _)

\* the ports of the schema, each looked up at the path it is wired to, or
\* at (port,) if it is not wired
schema_topology_items(st, at, kids, wiring, keys) ==
    IF kids = <<>> THEN NoView
    ELSE Join(schema_topology(st,
                  get_path(st, at, WireOf(wiring, Head(kids).key)),
                  Head(kids).cfg, <<>>, Append(keys, Head(kids).key)),
              schema_topology_items(st, at, Tail(kids), wiring, keys))

\* the port '*': every child of the node, under the subschema of '*'
schema_topology_star(st, children, subschema, keys) ==
    IF children = <<>> THEN NoView
    ELSE Join(schema_topology(st, Head(children).path, subschema, <<>>,
                  Append(keys, LastOf(Head(children).path))),
              schema_topology_star(st, Tail(children), subschema, keys))

\* schema_topology with tuple paths: a leaf gives get_value(); any other
\* node a new dict with one entry per port. A path that leads nowhere gives
\* None, on which the call raises; a reserved key other than '*' and
\* '_divider' is looked up as a child, which no node has
schema_topology(st, at, schema, wiring, keys) ==
    IF at = None THEN BadView
    ELSE IF NodeAt(st, at).leaf
    THEN [err |-> FALSE,
          leaves |-> <<ViewLeaf(keys, at,
                          ~HasInner(st, at)
                              /\ IsEmpty(NodeAt(st, at).subschema))>>]
    ELSE IF schema.keys \ {"*", "_divider"} # {} THEN BadView
    ELSE Join(IF "*" \notin schema.keys THEN NoView
              ELSE IF "*" \notin WirePorts(wiring)
              THEN schema_topology_star(st, Children(st, at), schema.star,
                                        keys)
              ELSE IF get_path(st, at, WireOf(wiring, "*")) = None
              THEN BadView
              ELSE schema_topology_star(st,
                       Children(st, get_path(st, at, WireOf(wiring, "*"))),
                       schema.star, keys),
              schema_topology_items(st, at, schema.kids, wiring, keys))

\* What a next_update that writes to its states argument does. Binding a key
\* of the dict to a new object changes the dict, which schema_topology built
\* for this call. Changing the bound object in place (`fields[k] += delta`
\* on an array, as DiffusionField.next_update does) changes the object
\* itself: an int is immutable, an array or a list is not, and it is the
\* object the node holds.
Mutable(v) == v.t \in {"array", "list"}
write_states(st, leaf, in_place) ==
    IF in_place /\ leaf.own /\ Mutable(NodeAt(st, leaf.node).value)
    THEN SetNode(st, [NodeAt(st, leaf.node) EXCEPT !.value.n = @ + 1])
    ELSE st

\* process_update: the projection of the Store is built and handed to the
\* process; the update it returns is data and is not applied here
Store_process_update(w, view, k, in_place) ==
    IF view.err THEN Fail(w)
    ELSE With(w, write_states(w.st, view.leaves[k], in_place))

\* -------------------------------------------------------------------- reduce
\* depth: the pairs (path, node) of a subtree, the node itself first and then
\* what depth gives for each child in the order of inner, the paths growing
\* from the path given; a node is named by its place in the Store
Visit(path, node) == [path |-> path, node |-> node]

RECURSIVE depth_post(_, _, _)
RECURSIVE depth_post_inner(_, _, _)
depth_post_inner(st, children, path) ==
    IF children = <<>> THEN <<>>
    ELSE depth_post(st, Head(children).path,
                    Append(path, LastOf(Head(children).path)))
             \o depth_post_inner(st, Tail(children), path)
\* a depth that lists a node after its children
depth_post(st, at, path) ==
    depth_post_inner(st, Children(st, at), path) \o <<Visit(path, at)>>

RECURSIVE Store_depth(_, _, _)
RECURSIVE depth_inner(_, _, _)
depth_inner(st, children, path) ==
    IF children = <<>> THEN <<>>
    ELSE Store_depth(st, Head(children).path,
                     Append(path, LastOf(Head(children).path)))
             \o depth_inner(st, Tail(children), path)
Store_depth(st, at, path) ==
    <<Visit(path, at)>> \o depth_inner(st, Children(st, at), path)

\* the reducer used here returns the accumulator with the call appended
record_call(value, path, node) == Append(value, Visit(path, node))

\* the loop of reduce over depth()
RECURSIVE reduce_from(_, _)
reduce_from(value, pairs) ==
    IF pairs = <<>> THEN value
    ELSE reduce_from(record_call(value, Head(pairs).path, Head(pairs).node),
                     Tail(pairs))

\* reduce(reducer, initial) as a call on the Store
Store_reduce(w, at, initial) ==
    [w EXCEPT !.out = reduce_from(initial, Store_depth(w.st, at, <<>>))]

\* ---------------------------------------------------------- inverse_topology
\* d[key] = value on the items of a dict: a key that is there keeps its
\* place
set_item(items, key, upd) ==
    IF \E k \in 1..Len(items) : items[k].key = key
    THEN [k \in 1..Len(items) |->
             IF items[k].key = key THEN Entry(key, upd) ELSE items[k]]
    ELSE Append(items, Entry(key, upd))
get_item(items, key) ==
    items[CHOOSE k \in 1..Len(items) : items[k].key = key].upd

\* assoc_path(d, path, value) on a dict that may hold entries already:
\* [raises, the items of d after]. The empty path does nothing; a path of
\* one key binds the key; a longer one goes into d[head], which is made
\* when it is not there and must be a dict when it is
RECURSIVE assoc_path_dict(_, _, _)
assoc_path_under(items, head, r) ==
    [err |-> r.err,
     items |-> IF r.err THEN items
               ELSE set_item(items, head,
                        IF \E k \in 1..Len(items) : items[k].key = head
                        THEN [get_item(items, head) EXCEPT !.items = r.items]
                        ELSE [NoUpdate EXCEPT !.items = r.items])]
assoc_path_dict(items, path, value) ==
    IF path = <<>> THEN [err |-> FALSE, items |-> items]
    ELSE IF Len(path) = 1
    THEN [err |-> FALSE, items |-> set_item(items, Head(path), value)]
    ELSE IF ~\E k \in 1..Len(items) : items[k].key = Head(path)
    THEN assoc_path_under(items, Head(path),
                          assoc_path_dict(<<>>, Tail(path), value))
    ELSE IF get_item(items, Head(path)).t # "dict"
    THEN [err |-> TRUE, items |-> items]
    ELSE assoc_path_under(items, Head(path),
             assoc_path_dict(get_item(items, Head(path)).items, Tail(path),
                             value))

\* the loop of inverse_topology over topology.items(), for ports wired to
\* tuple paths: a port the update names is set at normalize_path(outer + path)
RECURSIVE inverse_topology_from(_, _, _, _)
inverse_topology_from(inverse, outer, update, wiring) ==
    IF wiring = <<>> \/ inverse.err THEN inverse
    ELSE inverse_topology_from(
             IF \E k \in 1..Len(update) : update[k].key = Head(wiring).port
             THEN assoc_path_dict(inverse.items,
                      normalize_path(outer \o Head(wiring).path),
                      get_item(update, Head(wiring).port))
             ELSE inverse,
             outer, update, Tail(wiring))

inverse_topology_ports(outer, update, wiring) ==
    inverse_topology_from([err |-> FALSE, items |-> <<>>], outer, update,
                          wiring)

\* ------------------------------------------- one Store, operation by operation
MaxOps == 2
MaxUpdates == 1
MaxCount == 3
MaxFlagella == 3

\* ports_schema() of a cell's process: an integer count divided by `split`,
\* the flagella of FlagellaActivity and the quarks of test_topology_ports
CountLeaf ==
    [NoConfig EXCEPT !.keys = {"_default", "_emit", "_divider"},
                     !.default = IntV(0), !.emit = TRUE, !.divider = "split"]
FlagellaStar ==
    [NoConfig EXCEPT !.keys = {"_default", "_updater", "_emit"},
                     !.default = IntV(1), !.updater = "set", !.emit = TRUE]
FlagellaPort ==
    [NoConfig EXCEPT !.keys = {"*", "_divider"}, !.star = FlagellaStar,
                     !.divider = "split_dict"]
QuarkLeaf ==
    [NoConfig EXCEPT !.keys = {"_default", "_updater"},
                     !.default = IntV(0), !.updater = "set"]
QuarkStar ==
    [NoConfig EXCEPT !.kids = <<Kid("color", QuarkLeaf),
                                Kid("spin", QuarkLeaf)>>]
QuarksPort ==
    [NoConfig EXCEPT !.keys = {"*", "_divider"}, !.star = QuarkStar,
                     !.divider = "split_dict"]
\* a leaf declared with a default and nothing else: it has no divider
MassLeaf == [NoConfig EXCEPT !.keys = {"_default"}, !.default = IntV(1)]
CellSchema ==
    [NoConfig EXCEPT !.kids =
        <<Kid("counts", [NoConfig EXCEPT !.kids =
                            <<Kid("flagella", CountLeaf),
                              Kid("mass", MassLeaf)>>]),
          Kid("flagella", FlagellaPort),
          Kid("quarks", QuarksPort)>>]

CellProcesses == <<Process("motor", 1, CellSchema, <<>>)>>

FlagellaIds == <<"f1", "f2", "f3", "f4">>

\* the initial state of a cell: its count, its flagella and one quark whose
\* color is given and whose spin is left to the default
CellState(count, flagella) ==
    DictV(<<Item("counts", DictV(<<Item("flagella", count)>>)),
            Item("flagella",
                 DictV([k \in 1..flagella |-> Item(FlagellaIds[k], IntV(1))])),
            Item("quarks",
                 DictV(<<Item("q1", DictV(<<Item("color", IntV(2))>>))>>))>>)

\* Store({}) and the mother cell generated at ('m',)
EmptyStore == <<Store(<<>>)>>
Colony(count, flagella) ==
    Store_generate(Tree(EmptyStore), <<>>, <<"m">>, CellProcesses,
                   CellState(count, flagella)).st

\* the counts a cell can hold: small ints, a negative one, and ints from
\* 2^53 on, which a float cannot hold exactly
Counts == {IntV(n) : n \in 0..MaxCount} \cup {BigV(2, n) : n \in 0..MaxCount}
                \cup {IntV(-1)}

\* a mother cell whose flagella are divided by a function of its own
ResetSchema ==
    [CellSchema EXCEPT !.kids[2].cfg.divider = "reset_first"]
ResetColony ==
    Store_generate(Tree(EmptyStore), <<>>, <<"m">>,
                   <<Process("motor", 1, ResetSchema, <<>>)>>,
                   CellState(IntV(1), 2)).st

Colonies ==
    {Colony(n, 2) : n \in Counts}
        \cup {Colony(IntV(1), k) : k \in 0..MaxFlagella}
        \cup {ResetColony}

Operation(name, path, arg) == [name |-> name, path |-> path, arg |-> arg]

\* the outcome of an operation becomes the state of the Store
Done(o, w, bound) ==
    /\ ops < bound
    /\ ops' = ops + 1
    /\ op' = o
    /\ prev' = tree
    /\ tree' = w.st
    /\ gone' = w.lost
    /\ exc' = w.err
    /\ ret' = IF w.err THEN None ELSE w.ret
    /\ data' = IF w.err THEN NoneV ELSE w.out
    /\ UNCHANGED <<cfg, state, tombs, topology, oid, time, local_time, front,
                   processes, derivers, pc, i, full_step, updates, triggers,
                   calls, snapshot, applied, derived>>
    /\ UNCHANGED evars

Apply1(o, w) == \E r \in {w} : Done(o, r, MaxOps)

Update1(o, w) == \E r \in {w} : Done(o, r, MaxUpdates)

\* the configs handed to apply_config and establish_path
ArrayLeaf ==
    [NoConfig EXCEPT !.keys = {"_default"}, !.default = ArrayV(1)]
ValueLeaf ==
    [NoConfig EXCEPT !.keys = {"_value"}, !.value = IntV(1)]
ZeroLeaf ==
    [NoConfig EXCEPT !.keys = {"_default"}, !.default = IntV(0)]
OneLeaf ==
    [NoConfig EXCEPT !.keys = {"_default", "_updater"}, !.default = IntV(1),
                     !.updater = "set"]
BranchOf(key, c) == [NoConfig EXCEPT !.kids = <<Kid(key, c)>>]

\* ports_schema() of DiffusionField: a field whose default is an array, and
\* the Store generated for the process at the root
FieldSchema == BranchOf("fields", BranchOf("glc", ArrayLeaf))
Lattice ==
    Store_generate(Tree(EmptyStore), <<>>, <<>>,
                   <<Process("diffusion", 2, FieldSchema, <<>>)>>,
                   DictV(<<>>)).st

InitialStores == {EmptyStore, Colony(IntV(1), 2), Lattice}

\* schema declarations of one leaf, 'a', as two ports_schema() give them:
\* a `_default` from 0 to MaxDefault, or an explicit `_value`
MaxDefault == 2
DefaultLeaf(d) ==
    [NoConfig EXCEPT !.keys = {"_default"}, !.default = IntV(d)]
ExplicitLeaf(v) ==
    [NoConfig EXCEPT !.keys = {"_value"}, !.value = IntV(v)]
Declarations ==
    {BranchOf("a", DefaultLeaf(d)) : d \in 0..MaxDefault}
        \cup {BranchOf("a", ExplicitLeaf(v)) : v \in 1..MaxDefault}

FreshNames == <<"u", "v", "w", "x", "y", "z", "zz">>
MaxDepth == 5
FreshPaths == {SubSeq(FreshNames, 1, k) : k \in 0..MaxDepth}

CountPath == <<"m", "counts", "flagella">>
FlagellaPath == <<"m", "flagella">>
QuarksPath == <<"m", "quarks">>

\* apply_config(config) on a node of the Store
ConfigCalls ==
    {<<CountPath, ZeroLeaf>>, <<CountPath, ValueLeaf>>,
     <<CountPath, NoConfig>>, <<CountPath, BranchOf("a", OneLeaf)>>,
     <<<<"m">>, OneLeaf>>, <<<<>>, BranchOf("a", ArrayLeaf)>>}
        \cup {<<<<>>, d>> : d \in Declarations}

ApplyConfig ==
    \E c \in ConfigCalls :
        /\ c[1] \in Paths(tree)
        /\ Apply1(Operation("apply_config", c[1], c[2]),
                  apply_config(Tree(tree), c[1], c[2]))

\* establish_path(path, config) from a node of the Store
EstablishCalls ==
    {<<<<>>, p, OneLeaf>> : p \in FreshPaths}
        \cup {<<<<>>, <<>>, NoConfig>>,
              <<<<"m">>, <<"counts", "flagella", "x">>, NoConfig>>,
              <<<<"m">>, <<"..", "..", "a">>, NoConfig>>}

EstablishPath ==
    \E c \in EstablishCalls :
        /\ c[1] \in Paths(tree)
        /\ Apply1(Operation("establish_path", c[1], <<c[2], c[3]>>),
                  Store_establish_path(Tree(tree), c[1], c[2], c[3]))

\* get_path(path) from the root
GetPaths ==
    {<<"u", "v">>, CountPath, <<"m", "..", "m">>, <<"..">>, <<"m", "u">>}

GetPath ==
    \E p \in GetPaths :
        Apply1(Operation("get_path", <<>>, p),
               Store_get_path(Tree(tree), <<>>, p))

\* delete_path(path) from the root
DeletePaths ==
    {<<>>, <<"m">>, <<"m", "flagella", "f1">>, <<"m", "..">>,
     <<"u", "v", "w">>}

DeletePath ==
    \E p \in DeletePaths :
        Apply1(Operation("delete_path", <<>>, p),
               Store_delete_path(Tree(tree), <<>>, p))

\* set_value(value) on a node of the Store
ValueCalls ==
    {<<CountPath, IntV(MaxCount)>>,
     <<QuarksPath, DictV(<<Item("q2", DictV(<<Item("spin", IntV(1))>>))>>)>>,
     <<<<"m">>, IntV(1)>>}

SetValue ==
    \E c \in ValueCalls :
        /\ c[1] \in Paths(tree)
        /\ Apply1(Operation("set_value", c[1], c[2]),
                  Store_set_value(Tree(tree), c[1], c[2]))

\* generate_paths(processes, topology) on a node of the Store
\* the process of a cell under a topology: one that leaves the ports to
\* their default paths, one that wires every port, one that also names a
\* port the schema does not declare
Wirings ==
    {<<>>,
     <<Wire("counts", <<"counts">>), Wire("flagella", <<"flagella">>),
       Wire("quarks", <<"quarks">>)>>,
     <<Wire("counts", <<"counts">>), Wire("flagella", <<"flagella">>),
       Wire("quarks", <<"quarks">>), Wire("extra", <<"x">>)>>}

GeneratePaths ==
    \E at \in {<<>>, CountPath}, wiring \in Wirings :
        /\ at \in Paths(tree)
        /\ Apply1(Operation("generate_paths", at,
                            <<Process("motor", 1, CellSchema, wiring)>>),
                  Store_generate_paths(Tree(tree), at,
                      <<Process("motor", 1, CellSchema, wiring)>>))

\* process_update of a process whose next_update writes to one leaf of its
\* states: the process of the lattice and the process of a cell
ProjectCalls ==
    {<<<<>>, FieldSchema, <<>>>>,
     <<<<"m">>, CellSchema, <<>>>>,
     <<<<"m">>, CellSchema, <<Wire("counts", <<"counts">>),
                              Wire("flagella", <<"quarks", "q1">>),
                              Wire("quarks", <<"nowhere">>)>>>>}

ProcessUpdate ==
    \E c \in ProjectCalls, in_place \in BOOLEAN :
        /\ c[1] \in Paths(tree)
        /\ \E view \in {schema_topology(tree, c[1], c[2], c[3], <<>>)} :
             \E k \in 1..(IF view.err THEN 1 ELSE Len(view.leaves)) :
                Apply1(Operation("process_update", c[1],
                           [leaf |-> IF view.err THEN None
                                     ELSE view.leaves[k],
                            in_place |-> in_place]),
                       Store_process_update(Tree(tree), view, k, in_place))

\* reduce(record_call, initial) on a node of the Store
ReducePaths == {<<>>, <<"m">>, <<"m", "quarks">>, CountPath}
Initials == {<<>>, <<Visit(<<"before">>, None)>>}

Reduce ==
    \E at \in ReducePaths, initial \in Initials :
        /\ at \in Paths(tree)
        /\ Apply1(Operation("reduce", at, initial),
                  Store_reduce(Tree(tree), at, initial))

\* emit_data() on the root
EmitData ==
    Apply1(Operation("emit_data", <<>>, <<>>),
           Store_emit_data(Tree(tree), <<>>))

\* the update {path[0]: {path[1]: ... upd}}
RECURSIVE Nest(_, _)
Nest(path, upd) ==
    IF path = <<>> THEN upd
    ELSE [NoUpdate EXCEPT !.items = <<Entry(Head(path),
                                            Nest(Tail(path), upd))>>]

Directives(order, upd) ==
    [upd EXCEPT !.has = {order[k] : k \in 1..Len(order)}, !.order = order]

DaughterOf(id, path) == Daughter(id, path, CellProcesses, DictV(<<>>))

DivideUpdate(mother, second, path) ==
    [NoUpdate EXCEPT !.divide =
        Divide(mother, <<DaughterOf("a", <<"a">>), DaughterOf(second, path)>>)]

DeleteAdd ==
    [NoUpdate EXCEPT !.delete = <<<<"f1">>>>,
                     !.add = <<Added(<<"f1">>, IntV(5))>>]

QuarkUpdate ==
    [NoUpdate EXCEPT !.items = <<Entry("color", ValueU(IntV(2)))>>]

\* a directive that creates the cell k together with an ordinary key k
\* whose update adds 1 to the count of that cell
OrdinaryKeys == {"e", "d", "k"}
CountUp == Nest(<<"counts", "flagella">>, ValueU(IntV(1)))
GenerateAnd(k) ==
    Directives(<<"_generate">>,
        [NoUpdate EXCEPT
            !.generate = <<Generate(<<k>>, CellProcesses, DictV(<<>>))>>,
            !.items = <<Entry(k, CountUp)>>])
DivideAnd(k) ==
    Directives(<<"_divide">>,
        [DivideUpdate("m", k, <<k>>) EXCEPT !.items = <<Entry(k, CountUp)>>])

\* the updates handed to apply_update at the root
Updates ==
    {Directives(<<"_divide">>, DivideUpdate("m", "b", <<"b">>)),
     Directives(<<"_delete", "_divide">>,
         [DivideUpdate("z", "b", <<"b">>) EXCEPT
             !.delete = <<<<"m", "flagella", "f1">>>>]),
     Directives(<<"_generate">>,
         [NoUpdate EXCEPT !.generate =
             <<Generate(<<"g">>, CellProcesses, DictV(<<>>))>>]),
     Nest(FlagellaPath, Directives(<<"_delete", "_add">>, DeleteAdd)),
     Nest(FlagellaPath, Directives(<<"_add", "_delete">>, DeleteAdd)),
     Nest(FlagellaPath, Directives(<<"_delete">>,
         [NoUpdate EXCEPT !.delete = <<<<"f1">>>>,
                          !.items = <<Entry("f1", ValueU(IntV(7)))>>])),
     Nest(QuarksPath, Directives(<<"_add">>,
         [NoUpdate EXCEPT !.add =
             <<Added(<<"q2">>, DictV(<<Item("color", IntV(2))>>))>>])),
     Nest(QuarksPath,
         [NoUpdate EXCEPT !.items = <<Entry("q3", QuarkUpdate)>>]),
     Nest(CountPath, ValueU(IntV(1)))}
        \cup {GenerateAnd(k) : k \in OrdinaryKeys \ {"d"}}
        \cup {DivideAnd(k) : k \in OrdinaryKeys \ {"e"}}

SplitLeaves(st) ==
    {st[k].path : k \in {j \in 1..Len(st) : st[j].divider = "split"}}

\* apply_update(update) at the root; heads is what random.choice gives
ApplyUpdate ==
    \E u \in Updates :
        \E heads \in (IF "_divide" \in u.has
                      THEN SUBSET SplitLeaves(Subtree(tree, <<u.divide.mother>>))
                      ELSE {{}}) :
            Update1(Operation("apply_update", <<>>, [u |-> u, heads |-> heads]),
                    [Store_apply_update(Tree(tree), <<>>, u, heads)
                        EXCEPT !.ret = None])

\* updates of one leaf: the count, whose updater is `accumulate`, and a
\* flagellum, whose updater is `set`; plain ones and ones that name an
\* updater, with and without a `_value`
MaxOverrides == 2
Override(updater, v) ==
    [NoUpdate EXCEPT !.has = {"_updater", "_value"}, !.updater = updater,
                     !.v = v]
LeafUpdates ==
    {<<CountPath, Override("set", IntV(7))>>,
     <<CountPath, Override("accumulate", IntV(2))>>,
     <<CountPath, [NoUpdate EXCEPT !.has = {"_updater"}, !.updater = "set"]>>,
     <<CountPath, ValueU(IntV(1))>>,
     <<<<"m", "flagella", "f1">>, Override("accumulate", IntV(2))>>,
     <<<<"m", "flagella", "f1">>, ValueU(IntV(5))>>}

\* apply_update(update) at the root, the update being for one leaf
LeafUpdate ==
    \E c \in LeafUpdates :
        /\ c[1] \in Paths(tree)
        /\ \E w \in {Store_apply_update(Tree(tree), <<>>, Nest(c[1], c[2]),
                                        {})} :
             Done(Operation("apply_update", c[1], c[2]), w, MaxOverrides)

\* the scheduler's variables while a Store is driven on its own
NoExperiment ==
    /\ cfg = ScenarioB
    /\ state = <<>>
    /\ tombs = {}
    /\ topology = {}
    /\ oid = 0
    /\ time = 0
    /\ local_time = 0
    /\ front = <<>>
    /\ processes = <<>>
    /\ derivers = <<>>
    /\ pc = "store"
    /\ i = 1
    /\ full_step = INFINITY
    /\ updates = <<>>
    /\ triggers = 0
    /\ calls = <<>>
    /\ snapshot = <<>>
    /\ applied = <<>>
    /\ derived = {}
    /\ emit_step = NoEmitStep
    /\ emit_time = NoEmitStep
    /\ emits = <<>>

Fresh(stores) ==
    /\ tree \in stores
    /\ gone = <<>>
    /\ exc = FALSE
    /\ op = NoOp
    /\ prev = tree
    /\ ret = None
    /\ data = NoneV
    /\ ops = 0

\* a Store under a sequence of configuration and path operations
StoreInit == NoExperiment /\ Fresh(InitialStores)

StoreNext ==
    \/ ApplyConfig
    \/ EstablishPath
    \/ GetPath
    \/ DeletePath
    \/ SetValue
    \/ GeneratePaths
    \/ EmitData
    \/ ProcessUpdate
    \/ Reduce

StoreSpec == StoreInit /\ [][StoreNext]_vars

\* a colony of one cell under an update
UpdateInit == NoExperiment /\ Fresh(Colonies)

UpdateSpec == UpdateInit /\ [][ApplyUpdate]_vars

\* the loop of send_updates over a batch, update by update, on the Store
RECURSIVE Store_send_updates(_, _)
Store_send_updates(w, batch) ==
    IF batch = <<>> \/ w.err THEN w
    ELSE Store_send_updates(Store_apply_update(w, <<>>, Head(batch), {}),
                            Tail(batch))

\* one leaf x with a default and an updater (`accumulate` also when none is
\* declared), generated with no initial state, and the batches of plain
\* updates for it: every sequence of up to MaxBatch payloads
MaxBatch == 3
Payloads == {IntV(1), IntV(5), IntV(-1), BigV(1, 0)}
LeafPath == <<"x">>
UpdaterLeaf(d, updater) ==
    IF updater = ""
    THEN [NoConfig EXCEPT !.keys = {"_default"}, !.default = d]
    ELSE [NoConfig EXCEPT !.keys = {"_default", "_updater"}, !.default = d,
                          !.updater = updater]
LeafStore(d, updater) ==
    Store_generate(Tree(EmptyStore), <<>>, <<>>,
        <<Process("p", 1, BranchOf("x", UpdaterLeaf(d, updater)), <<>>)>>,
        DictV(<<>>)).st
LeafStores ==
    {LeafStore(d, u) : d \in {IntV(0), IntV(1), BigV(2, 1)},
                       u \in {"", "accumulate", "set"}}
Batches ==
    UNION {[1..n -> Payloads] : n \in 0..MaxBatch}

SendUpdates ==
    \E batch \in Batches :
        ops = 0 /\
        Update1(Operation("send_updates", LeafPath, batch),
                Store_send_updates(Tree(tree),
                    [k \in 1..Len(batch) |->
                        Nest(LeafPath, ValueU(batch[k]))]))

BatchInit == NoExperiment /\ Fresh(LeafStores)

\* one leaf under a batch of plain updates
BatchSpec == BatchInit /\ [][SendUpdates]_vars

\* inverse_topology(outer, update, topology) for a process with the ports p
\* and q: where the process is mounted, what the ports are wired to (the
\* same path, a path and one below it, the empty path, a path that goes up)
\* and the update, which names one port or both, with a value or a dict
PortPaths == {<<>>, <<"x">>, <<"x", "y">>, <<"..", "x">>, <<"z">>}
PortUpdates == {ValueU(IntV(1)), ValueU(IntV(2)),
                [NoUpdate EXCEPT !.items = <<Entry("a", ValueU(IntV(1)))>>]}
Outers == {<<>>, <<"c">>, <<"c", "0">>}
InverseCalls ==
    {[outer |-> o,
      wiring |-> <<Wire("p", pp), Wire("q", qq)>>,
      update |-> u] :
        o \in Outers, pp \in PortPaths, qq \in PortPaths,
        u \in {<<Entry("p", a)>> : a \in PortUpdates}
                \cup {<<Entry("q", a), Entry("p", b)>> :
                         a \in PortUpdates, b \in PortUpdates}}

InverseInit ==
    /\ NoExperiment
    /\ tree = EmptyStore
    /\ gone = <<>>
    /\ exc = FALSE
    /\ op \in {Operation("inverse_topology", c.outer, c) : c \in InverseCalls}
    /\ prev = tree
    /\ ret = None
    /\ data = NoneV
    /\ ops = 0

InverseTopology ==
    /\ ops = 0
    /\ op.name = "inverse_topology"
    /\ \E r \in {inverse_topology_ports(op.arg.outer, op.arg.update,
                                        op.arg.wiring)} :
          Update1(op, [Tree(tree) EXCEPT
                          !.err = r.err,
                          !.out = [NoUpdate EXCEPT !.items = r.items]])

\* inverse_topology on its own
InverseSpec == InverseInit /\ [][InverseTopology]_vars

\* a colony of one cell under updates of one leaf
OverrideSpec == UpdateInit /\ [][LeafUpdate]_vars

\* ------------------------------------------------------------------ claims
Names(c) == {c.order[k] : k \in 1..Len(c.order)}

Left == pc \in {"done", "assertion"}

\* C1: when update(interval) leaves its loop, the front time of every
\* process equals interval and its pending update is empty, for every fixed
\* set of processes with positive timesteps and every positive interval
C1_FinalAssertions ==
    (FixedSet /\ Left) =>
        \A k \in 1..Len(front) :
            front[k].time = cfg.interval /\ front[k].update = <<>>

\* C2: for a fixed set of non-deriver processes with positive timesteps
\* update(interval) terminates: global time strictly increases on every
\* tick, and equals interval exactly when the loop exits
C2_Terminates ==
    /\ [][FixedSet =>
            /\ (pc \in {"advance", "derive"} /\ pc' = "loop") => time' > time
            /\ (pc = "loop" /\ pc' \in {"done", "assertion"}) =>
                   time = cfg.interval]_vars
    /\ <>(FixedSet => Left)

C2_Witness ==
    /\ FixedSet /\ Left
    /\ Len(front) = 2
    /\ cfg.ts["slow"] = 2 /\ cfg.ts["fast"] = 3
    /\ time = 5

C4_AppliedAtFront ==
    \A k \in 1..Len(applied) :
        (FixedSet /\ ~applied[k].empty) => applied[k].time = applied[k].at

CallsOf(name) == SelectNodes(calls, LAMBDA r : LastOf(r.path) = name)

C6_LocalTimeTracks ==
    (cfg \in CompartmentConfigs /\ pc \in {"loop", "done", "assertion"}) =>
        local_time = time

MinFront(f, interval) ==
    IF f = <<>> THEN interval
    ELSE Min(interval,
             CHOOSE t \in {f[k].time : k \in 1..Len(f)} :
                 \A j \in 1..Len(f) : t <= f[j].time)

\* C7: on a tick where no process is due, global time is set to the
\* minimum front time over the front (or to interval when that is smaller
\* or the front is empty), and nothing is computed or applied
C7_IdleSkip ==
    [][(pc = "advance" /\ full_step = INFINITY /\ pc' = "loop") =>
          /\ time' = MinFront(front, cfg.interval)
          /\ calls' = calls
          /\ applied' = applied
          /\ state' = state]_vars

\* C8: after every batch of applied updates and before the next tick,
\* every deriver in the tree after the batch, the ones a _generate or
\* _divide of the batch created included, has been run once
C8_DeriversRun ==
    ("divider" \in Names(cfg) /\ cfg.directive = "divide"
        /\ pc = "derive" /\ i > Len(derivers)) =>
        \A k \in 1..Len(fresh_derivers(state)) :
            fresh_derivers(state)[k].oid \in derived

\* C9: Scenario E: once an update carrying _delete for sibling process
\* names through the empty-path port has been applied, the named processes
\* are gone from the tree and the others go on being scheduled
C9_Deletion ==
    \A k \in 1..Len(applied) :
        applied[k].directive = "delete" =>
            /\ \A j \in 1..Len(cfg.targets) :
                   Append(ButLast(applied[k].path), cfg.targets[j])
                       \notin Paths(state)
            /\ pc # "raised"

\* C10: after a batch with _generate or _divide has been applied, the
\* topology registry has an entry at the path of every process the
\* directive created
C10_Registry ==
    ("divider" \in Names(cfg) /\ pc \in {"derive", "loop"}) =>
        \A k \in 1..Len(state) :
            state[k].kind = "proc" => state[k].path \in topology

\* the last operation was apply_update with a `_divide` directive
Divided == op.name = "apply_update" /\ "_divide" \in op.arg.u.has

DaughterPaths ==
    {op.arg.u.divide.daughters[k].path :
        k \in 1..Len(op.arg.u.divide.daughters)}

\* C11: division is atomic: after apply_update with `_divide`, either the
\* call succeeded, both daughters are present and the mother is absent, or
\* it raised and the store is exactly as it was before the call.
C11_DivisionAtomic ==
    Divided =>
        IF exc THEN tree = prev
        ELSE /\ DaughterPaths \subseteq Paths(tree)
             /\ <<op.arg.u.divide.mother>> \notin Paths(tree)


\* a successful `_divide` of the mother cell 'm' into the daughters 'a', 'b'
DividedCell ==
    /\ Divided
    /\ ~exc
    /\ op.arg.u.divide.mother = "m"
    /\ DaughterPaths = {<<"a">>, <<"b">>}

MotherCount == NodeAt(prev, CountPath).value
DaughterCount(id) == NodeAt(tree, <<id, "counts", "flagella">>).value

\* C12: conservation under division: a leaf of the mother declared with
\* divider `split` and holding a non-negative integer n is divided into two
\* values that sum to n and differ by at most 1, whichever daughter
\* receives the remainder
C12_Conservation ==
    (DividedCell /\ (MotherCount.hi > 0 \/ MotherCount.n >= 0)) =>
        /\ DaughterCount("a").hi + DaughterCount("b").hi = MotherCount.hi
        /\ DaughterCount("a").n + DaughterCount("b").n = MotherCount.n
        /\ DaughterCount("a").hi = DaughterCount("b").hi
        /\ DaughterCount("a").n - DaughterCount("b").n \in {-1, 0, 1}


\* the keys of the children of the node at p
ChildKeys(st, p) ==
    {LastOf(st[k].path) :
        k \in {j \in 1..Len(st) :
                  Len(st[j].path) = Len(p) + 1 /\ IsPrefix(p, st[j].path)}}

\* C13: a branch of the mother declared with divider `split_dict` is
\* divided into two disjoint key sets whose union is the mother's key set
\* and whose sizes differ by at most 1
C13_SplitDict ==
    DividedCell =>
        LET a == ChildKeys(tree, <<"a", "flagella">>)
            b == ChildKeys(tree, <<"b", "flagella">>)
        IN /\ a \cap b = {}
           /\ a \cup b = ChildKeys(prev, FlagellaPath)
           /\ Cardinality(a) - Cardinality(b) \in {-1, 0, 1}


\* C14: leaf/branch exclusivity: after any sequence of operations no node
\* of the tree is a leaf and has children at the same time
C14_LeafOrBranch ==
    \A k \in 1..Len(tree) :
        tree[k].leaf => (k = Len(tree) \/ ~IsPrefix(tree[k].path, tree[k + 1].path))


\* C15: after delete_path(p) every node the call removed from the tree is
\* marked deleted, and for a non-empty p get_path(p) then returns None
C15_DeletedMarked ==
    (op.name = "delete_path" /\ ~exc) =>
        /\ \A k \in 1..Len(gone) : gone[k].deleted
        /\ op.arg # <<>> => get_path(tree, op.path, op.arg) = None


\* the update that reaches the node at path when upd is applied at the root
RECURSIVE UpdateAt(_, _)
UpdateAt(upd, path) ==
    IF path = <<>> THEN upd
    ELSE IF upd.t = "dict"
            /\ \E k \in 1..Len(upd.items) : upd.items[k].key = Head(path)
    THEN UpdateAt(upd.items[CHOOSE k \in 1..Len(upd.items) :
                                upd.items[k].key = Head(path)].upd,
                  Tail(path))
    ELSE NoUpdate

\* C16: a child removed by `_delete` is not made a child again by an
\* ordinary key of the update: when the update of a branch carries `_delete`
\* and none of `_add`, `_generate`, `_divide`, the deleted children are
\* absent after the update
C16_NoResurrection ==
    (op.name = "apply_update" /\ ~exc) =>
        LET u == UpdateAt(op.arg.u, FlagellaPath)
        IN u.has = {"_delete"} =>
               \A k \in 1..Len(u.delete) :
                   Present(prev, FlagellaPath \o u.delete[k]) =>
                       ~Present(tree, FlagellaPath \o u.delete[k])


\* C17: the directives of one update are processed in the fixed order
\* `_delete`, `_add`, `_generate`, `_divide`, whatever the order of the keys
\* in the update: on a branch that is there when the update is applied,
\* `_delete` of k together with `_add` at k leaves k present with the added
\* state
C17_FixedOrder ==
    (op.name = "apply_update" /\ ~exc /\ Present(prev, FlagellaPath)) =>
        LET u == UpdateAt(op.arg.u, FlagellaPath)
        IN {"_delete", "_add"} \subseteq u.has =>
               \A k \in 1..Len(u.add) :
                   /\ Present(tree, FlagellaPath \o u.add[k].path)
                   /\ NodeAt(tree, FlagellaPath \o u.add[k].path).value
                          = u.add[k].state

\* the update lists `_add` before `_delete`, both name the child f1 that the
\* branch held, and f1 is there afterwards with the added state
C17_Witness ==
    /\ op.name = "apply_update" /\ ~exc
    /\ UpdateAt(op.arg.u, FlagellaPath).order = <<"_add", "_delete">>
    /\ UpdateAt(op.arg.u, FlagellaPath).delete = <<<<"f1">>>>
    /\ UpdateAt(op.arg.u, FlagellaPath).add[1].path = <<"f1">>
    /\ Present(prev, <<"m", "flagella", "f1">>)
    /\ NodeAt(prev, <<"m", "flagella", "f1">>).value = IntV(1)
    /\ NodeAt(tree, <<"m", "flagella", "f1">>).value = IntV(5)
    /\ \E k \in 1..Len(gone) :
           gone[k].path = <<"m", "flagella", "f1">> /\ gone[k].deleted


\* what a leaf of a child holds when the child was given value: the entry
\* of value under the leaf's name, else the leaf's declared default
Given(value, key, default) ==
    IF value.t = "dict" /\ key \in ItemKeys(value.items)
    THEN ItemOf(value.items, key)
    ELSE default

\* the child at p holds every leaf the subschema declares, each with the
\* given value or its default
HoldsSubschema(st, p, subschema, value) ==
    \A k \in 1..Len(subschema.kids) :
        LET leaf == Append(p, subschema.kids[k].key)
        IN /\ Present(st, leaf)
           /\ NodeAt(st, leaf).value =
                  Given(value, subschema.kids[k].key,
                        subschema.kids[k].cfg.default)

\* C18: every child added to a branch with a registered subschema, by
\* `_add` or by an ordinary update key naming a new child, holds every leaf
\* the subschema declares, with the explicitly given value if one was given
\* and the declared default otherwise
C18_Wildcard ==
    (op.name = "apply_update" /\ ~exc) =>
        LET u == UpdateAt(op.arg.u, QuarksPath)
            T == NodeAt(tree, QuarksPath)
        IN /\ \A k \in 1..Len(u.add) :
                  HoldsSubschema(tree, QuarksPath \o u.add[k].path,
                                 T.subschema, u.add[k].state)
           /\ \A k \in 1..Len(u.items) :
                  ~Present(prev, Append(QuarksPath, u.items[k].key)) =>
                      HoldsSubschema(tree, Append(QuarksPath, u.items[k].key),
                                     T.subschema, ValueOf(u.items[k].upd))


\* what apply_config resolves on every node
Resolved(st) ==
    [k \in 1..Len(st) |->
        [path |-> st[k].path, value |-> st[k].value,
         default |-> st[k].default, updater |-> st[k].updater,
         divider |-> st[k].divider, emit |-> st[k].emit]]

\* apply_config with the config, and on the node, of the call before it
Reapplied ==
    /\ op.name = "apply_config" /\ ~exc
    /\ op'.name = "apply_config"
    /\ op'.path = op.path
    /\ op'.arg = op.arg

\* C19: apply_config is idempotent: a config that applied without error
\* applies a second time without error and leaves the value, default,
\* updater, divider and emit flag of every node as they were after the
\* first application
C19_Idempotent ==
    [][Reapplied => (~exc' /\ Resolved(tree') = Resolved(tree))]_vars


\* establish_path(path, config) returned, called on a branch node with a
\* path of names none of which existed under it
Established ==
    /\ op.name = "establish_path" /\ ~exc
    /\ ~NodeAt(prev, op.path).leaf
    /\ \A k \in 1..Len(op.arg[1]) : op.arg[1][k] # ".."
    /\ op.arg[1] # <<>> => ~Present(prev, Append(op.path, op.arg[1][1]))

\* C20: establish_path / get_path round trip: get_path(path) on the same
\* node returns the node establish_path returned, which carries the applied
\* config, and every intermediate node of the path exists as a branch
C20_RoundTrip ==
    Established =>
        LET path == op.arg[1]
            config == op.arg[2]
            node == get_path(tree, op.path, path)
        IN /\ node # None
           /\ node = ret
           /\ node = op.path \o path
           /\ NodeAt(tree, node).leaf = (config.keys # {})
           /\ "_default" \in config.keys =>
                  NodeAt(tree, node).default = config.default
           /\ "_updater" \in config.keys =>
                  NodeAt(tree, node).updater = config.updater
           /\ \A k \in 1..(Len(path) - 1) :
                  /\ Present(tree, op.path \o SubSeq(path, 1, k))
                  /\ ~NodeAt(tree, op.path \o SubSeq(path, 1, k)).leaf
                  /\ HasInner(tree, op.path \o SubSeq(path, 1, k))

\* a path of the greatest depth was established under the root of a store
\* that holds a cell, and read back
C20_Witness ==
    /\ Established
    /\ Len(op.arg[1]) = MaxDepth
    /\ Present(prev, <<"m">>)
    /\ get_path(tree, op.path, op.arg[1]) = ret
    /\ NodeAt(tree, ret).default = IntV(1)
    /\ Len(tree) = Len(prev) + MaxDepth

\* a step of the path does not exist: the steps before it lead to a node
\* that has no child of that name, or to the root when the step is `..`
MissingStep(st, path) ==
    \E k \in 1..Len(path) :
        LET at == get_path(st, <<>>, SubSeq(path, 1, k - 1))
        IN /\ at # None
           /\ \/ path[k] = ".." /\ at = <<>>
              \/ path[k] # ".." /\ ~Present(st, Append(at, path[k]))

\* C21: get_path is a pure query: it never raises, it leaves the tree as
\* it was (no node is created, none is removed), and for a path with a step
\* that does not exist it returns None
C21_PureQuery ==
    op.name = "get_path" =>
        /\ ~exc
        /\ tree = prev
        /\ gone = <<>>
        /\ MissingStep(prev, op.arg) => ret = None

\* a cell is there, the path names a child the cell does not have, and the
\* lookup gave None
C21_Witness ==
    /\ op.name = "get_path"
    /\ op.arg = <<"m", "u">>
    /\ Present(tree, <<"m">>)
    /\ ret = None

\* the leaf two declarations are applied to, and what the declaration just
\* applied says of it
Declared == <<"a">>
Declaration == op.arg.kids[1].cfg

\* a second declaration of the leaf has just been applied
DeclaredAgain ==
    /\ op.name = "apply_config"
    /\ op.path = <<>>
    /\ op.arg \in Declarations
    /\ Present(prev, Declared)

\* C22: of two `_default` numbers for one leaf of which exactly one is zero,
\* the nonzero one is the leaf's default whichever was declared first; a
\* second explicit `_value` that differs from the first raises and the leaf
\* keeps the first value
C22_TieBreak ==
    DeclaredAgain =>
        LET before == NodeAt(prev, Declared)
            new == Declaration
        IN /\ ("_default" \in new.keys /\ before.default.t = "int"
               /\ ((before.default = IntV(0)) # (new.default = IntV(0)))) =>
                  /\ ~exc
                  /\ NodeAt(tree, Declared).default
                         = (IF new.default = IntV(0) THEN before.default
                            ELSE new.default)
           /\ ("_value" \in new.keys /\ before.value.t = "int"
               /\ new.value # before.value) =>
                  /\ exc
                  /\ NodeAt(tree, Declared).value = before.value

\* the leaf was declared with a nonzero default, then with the default 0,
\* and holds the nonzero one
C22_Witness ==
    /\ DeclaredAgain
    /\ "_default" \in Declaration.keys
    /\ Declaration.default = IntV(0)
    /\ NodeAt(prev, Declared).default = IntV(MaxDefault)
    /\ NodeAt(tree, Declared).default = IntV(MaxDefault)

\* the ports of the process whose paths were generated, and the ports its
\* topology names
SchemaPorts == KidKeys(op.arg[1].schema) \cup op.arg[1].schema.keys
TopologyPorts == WirePorts(op.arg[1].topology)

\* C23: topology_ports raises on a mismatch between schema and topology in
\* either direction: a port of the topology that the schema does not
\* declare, or a port of the schema that the topology has no entry for
C23_Mismatch ==
    (op.name = "generate_paths" /\ SchemaPorts # TopologyPorts) => exc

\* the direction the code does reject: a topology naming an undeclared port
C23_Undeclared ==
    (op.name = "generate_paths" /\ TopologyPorts \ SchemaPorts # {}) => exc

\* the update names, as an ordinary key, a leaf that is not in the tree
NamesRemoved(st, update) ==
    \E k \in 1..Len(update) :
        /\ update[k].kind \in {"acc", "set"}
        /\ Append(update[k].at, update[k].key) \notin Paths(st)

\* C24: an update that names, as an ordinary key, a child that was removed
\* between the tick that computed it and the tick that applies it raises
\* when it is applied
C24_DeletedPathFatal ==
    [][(pc = "apply" /\ i <= Len(updates)
        /\ NamesRemoved(state, updates[i].update)) => pc' = "raised"]_vars

\* the subtree at m holds a leaf with a value (no process) that has no
\* divider, neither its own nor one of an ancestor inside the subtree
Undivided(st, m) ==
    \E k \in 1..Len(st) :
        /\ IsPrefix(m, st[k].path)
        /\ ~HasInner(st, st[k].path)
        /\ st[k].value.t \notin {"none", "proc"}
        /\ \A j \in 1..Len(st) :
               (IsPrefix(m, st[j].path) /\ IsPrefix(st[j].path, st[k].path))
                   => st[j].divider = ""

\* C25: `_divide` of a mother whose subtree holds a value-holding leaf with
\* no resolvable divider raises when it is applied
C25_NoDivider ==
    (/\ op.name = "apply_update"
     /\ "_divide" \in op.arg.u.has
     /\ Present(prev, <<op.arg.u.divide.mother>>)
     /\ Undivided(prev, <<op.arg.u.divide.mother>>)) => exc

\* the paths of the entries of a nested dict, the dicts in it included
RECURSIVE Entries(_, _)
Entries(v, base) ==
    IF v.t # "dict" THEN {}
    ELSE UNION {{Append(base, v.items[k].key)}
                    \cup Entries(v.items[k].val, Append(base, v.items[k].key)) :
                k \in 1..Len(v.items)}

\* the childless nodes whose emit flag is set and whose value is not None
Emitting(st) ==
    {st[k].path : k \in {j \in 1..Len(st) :
        /\ ~HasInner(st, st[j].path)
        /\ st[j].emit
        /\ st[j].value # NoneV}}

\* C26: the snapshot emit_data returns holds exactly the leaves whose emit
\* flag is set: every such leaf is in it, and every entry of it is such a
\* leaf or a branch above one, so a branch with no emitted leaf below it
\* does not appear, not even as {}
C26_EmitExactly ==
    (op.name = "emit_data" /\ ~exc) =>
        /\ Emitting(tree) \subseteq Entries(data, <<>>)
        /\ \A p \in Entries(data, <<>>) :
               \E q \in Emitting(tree) : IsPrefix(p, q)

\* the time tags of the snapshots update() emitted: emits without the
\* snapshot of the constructor
Tags == Tail(emits)

\* C27: with an emit_step e, update(interval) emits one snapshot for each
\* multiple of e up to the interval, tagged e, 2e, 3e, ... in this order,
\* whatever the timesteps of the processes the experiment runs
C27_Cadence ==
    (pc = "done" /\ emit_step # NoEmitStep /\ processes # <<>>) =>
        Tags = [k \in 1..(cfg.interval \div emit_step) |-> k * emit_step]

\* what does hold: the number of snapshots, when a process ran in the last
\* tick of update()
C27_Count ==
    (pc = "done" /\ emit_step # NoEmitStep /\ processes # <<>>) =>
        Len(Tags) = cfg.interval \div emit_step

\* C28: The state handed to a process's next_update is a read-only
\* projection: a process that writes to the states it received, also to a
\* leaf whose value is a mutable collection, changes no value of the Store.
C28_ReadOnly ==
    (op.name = "process_update" /\ ~exc) => tree = prev

\* the part of C28 that the projection does give: the dicts of the states
\* are built for the call, so a write that changes the Store is an in-place
\* change of an array a leaf holds
C28_OwnObject ==
    (op.name = "process_update" /\ ~exc /\ tree # prev)
        => /\ op.arg.in_place
           /\ NodeAt(prev, op.arg.leaf.node).value.t = "array"
           /\ Detach(tree, op.arg.leaf.node) = Detach(prev, op.arg.leaf.node)

\* C29: An `_updater` override applies to one call only: after apply_update
\* on a leaf with an update that carries `_updater` and `_value`, the value
\* of the leaf is override(old value, `_value`) and the updater the leaf is
\* configured with is unchanged, so a plain update that follows is applied
\* with the configured updater.
Overriding(o) ==
    o.name = "apply_update" /\ o.arg.t = "dict"
        /\ {"_updater", "_value"} \subseteq o.arg.has
Plain(o) == o.name = "apply_update" /\ o.arg.t = "value"

C29_OneCallOnly ==
    [][/\ (Overriding(op') /\ ~exc')
            => /\ NodeAt(tree', op'.path).value
                     = updater_library(op'.arg.updater,
                           NodeAt(tree, op'.path).value, op'.arg.v).v
               /\ NodeAt(tree', op'.path).updater
                     = NodeAt(tree, op'.path).updater
       /\ (Overriding(op) /\ ~exc /\ Plain(op') /\ op'.path = op.path
              /\ ~exc')
            => NodeAt(tree', op'.path).value
                   = updater_library(NodeAt(prev, op.path).updater,
                         NodeAt(tree, op'.path).value, op'.arg.v).v]_vars

\* the count was set to 7 by an override and then accumulated
\* a plain 1
C29_Witness ==
    /\ ops = 2 /\ Plain(op) /\ ~exc /\ op.path = CountPath
    /\ NodeAt(prev, CountPath).value = IntV(7)
    /\ NodeAt(tree, CountPath).value = IntV(8)
    /\ NodeAt(tree, CountPath).updater = "accumulate"

\* C30: Store.reduce calls the reducer exactly once for every node of the
\* subtree, in depth-first pre-order (each node before all of its
\* descendants), with the path of the node relative to the node reduce was
\* called on, starting from `initial` and threading each result into the
\* next call; the Store is not modified.
Called == SubSeq(data, Len(op.arg) + 1, Len(data))

C30_Reduce ==
    (op.name = "reduce" /\ ~exc)
        => /\ tree = prev /\ gone = <<>>
           /\ Len(data) >= Len(op.arg)
           /\ SubSeq(data, 1, Len(op.arg)) = op.arg
           /\ Len(Called) = Len(Subtree(prev, op.path))
           /\ {Called[k].node : k \in 1..Len(Called)}
                  = Paths(Subtree(prev, op.path))
           /\ \A k \in 1..Len(Called) :
                  Called[k].node = op.path \o Called[k].path
           /\ \A j, k \in 1..Len(Called) :
                  j < k => ~IsPrefix(Called[k].node, Called[j].node)
           /\ \A j, k, l \in 1..Len(Called) :
                  (j < k /\ k < l
                      /\ IsPrefix(Called[j].node, Called[l].node))
                      => IsPrefix(Called[j].node, Called[k].node)

\* reduce on a cell, from an accumulator that already holds something
C30_Witness ==
    /\ op.name = "reduce" /\ ~exc /\ op.path = <<"m">> /\ op.arg # <<>>
    /\ Len(Called) > MaxDepth
    /\ \E k \in 1..Len(Called) : Called[k].path = <<"quarks", "q1", "color">>

\* C31: For a leaf with updater `accumulate`, default d and no explicit
\* value, after apply_defaults and any sequence of plain updates u1..un the
\* value is d + u1 + ... + un, whatever the order in which the updates of the
\* batch are applied; for a leaf with updater `set` the value is the last
\* update applied. (Numbers here are ints, which Python adds exactly.)
RECURSIVE SumHi(_)
SumHi(s) == IF s = <<>> THEN 0 ELSE Head(s).hi + SumHi(Tail(s))
RECURSIVE SumN(_)
SumN(s) == IF s = <<>> THEN 0 ELSE Head(s).n + SumN(Tail(s))
TheLeaf(st) == NodeAt(st, LeafPath)

Pending(f, path) ==
    \E k \in 1..Len(f) : f[k].path = path /\ f[k].update # <<>>

C32_NoOverwrite ==
    [][(pc = "compute" /\ calls' # calls)
          => ~Pending(front, processes[i])]_vars

\* C33: Structural directives do not swallow ordinary keys: for an update
\* that carries `_generate` or `_divide` together with an ordinary key k that
\* names a child of the branch (also a short name such as 'e' or 'd'), k's
\* sub-update is applied to child k after the directive has been processed.
\* Here the child k is the cell the directive creates and the sub-update
\* adds 1 to its count: a generated cell then counts 1, and the two
\* daughters of a division together count one more than the mother did
\* (for a count that the divider shares out exactly).
WithKey(u) == u.items # <<>> /\ u.items[1].key \in OrdinaryKeys
CountOf(st, cell) == NodeAt(st, <<cell, "counts", "flagella">>).value

C33_OrdinaryKeys ==
    (op.name = "apply_update" /\ ~exc /\ WithKey(op.arg.u))
        => LET k == op.arg.u.items[1].key
           IN /\ "_generate" \in op.arg.u.has => CountOf(tree, k) = IntV(1)
              /\ ("_divide" \in op.arg.u.has /\ CountOf(prev, "m").hi = 0
                     /\ CountOf(prev, "m").n >= 0)
                   => CountOf(tree, "a").n + CountOf(tree, k).n
                          = CountOf(prev, "m").n + 1

\* C34: inverse_topology delivers every port's update: for every port that
\* occurs both in the process's update and in its topology, the returned
\* tree holds that port's update at normalize_path(outer + path), also when
\* two ports map to the same store path, when one port's path is a prefix
\* of another's, and when a port maps to the empty path; no port's update is
\* lost or replaced by another port's. (A dict is held where every entry of
\* it is held, so that the updates of two ports may share a dict.)
Missing == [NoUpdate EXCEPT !.t = "missing"]
RECURSIVE get_in(_, _)
get_in(upd, path) ==
    IF path = <<>> THEN upd
    ELSE IF upd.t = "dict"
            /\ \E k \in 1..Len(upd.items) : upd.items[k].key = Head(path)
    THEN get_in(get_item(upd.items, Head(path)), Tail(path))
    ELSE Missing

RECURSIVE Holds(_, _)
Holds(whole, part) ==
    IF whole.t = "missing" THEN FALSE
    ELSE IF part.t # "dict" THEN whole = part
    ELSE /\ whole.t = "dict"
         /\ \A k \in 1..Len(part.items) :
               Holds(get_in(whole, <<part.items[k].key>>), part.items[k].upd)

C34_Delivered ==
    (op.name = "inverse_topology" /\ ops = 1)
        => /\ ~exc
           /\ \A k \in 1..Len(op.arg.wiring) :
                 \A j \in 1..Len(op.arg.update) :
                    op.arg.update[j].key = op.arg.wiring[k].port
                       => Holds(get_in(data,
                                    normalize_path(op.arg.outer
                                        \o op.arg.wiring[k].path)),
                                op.arg.update[j].upd)

\* C35: In `_divide`, each daughter's initial state is its own divided share
\* merged onto the mother's captured template: the second daughter's state
\* contains no value taken from the first daughter's share (for a key
\* present in the first share but not in the second, the second daughter
\* gets the mother's captured value). Stated on the flagella of the second
\* daughter: each holds what the second share gives it, or else what the
\* mother held.
DividedM ==
    /\ op.name = "apply_update" /\ ~exc
    /\ "_divide" \in op.arg.u.has /\ op.arg.u.divide.mother = "m"
    /\ Present(prev, <<"m">>)
Second == op.arg.u.divide.daughters[2].daughter
SecondShare ==
    divide_value(prev, <<"m", "flagella">>, op.arg.heads).b

C35_OwnShare ==
    DividedM
        => \A f \in ChildKeys(prev, <<"m", "flagella">>) :
              /\ Present(tree, <<Second, "flagella", f>>)
              /\ NodeAt(tree, <<Second, "flagella", f>>).value
                    = IF f \in ItemKeys(SecondShare.items)
                      THEN ItemOf(SecondShare.items, f)
                      ELSE NodeAt(prev, <<"m", "flagella", f>>).value

\* C36: derivers are run one after the other, not as a superstep: each step
\* of a deriver pass runs one deriver on the store as the derivers before it
\* in the pass have left it and applies its update before the next deriver
\* is looked at (the volume deriver writes MASS / DENSITY of that store),
\* and a deriver whose node is marked deleted by then is skipped: the step
\* leaves the store alone and the pass goes on.
DeriveStep ==
    /\ pc \in {"construct", "derive"}
    /\ i <= Len(derivers)
    /\ i' = i + 1

Cytoplasm(d) == get_path(state, ButLast(d.path), CytoplasmPath)

C36_Sequential ==
    [][DeriveStep =>
        LET d == derivers[i]
        IN IF d.oid \in tombs
           THEN state' = state /\ tombs' = tombs /\ pc' = pc
                    /\ derived' = derived
           ELSE /\ derived' = derived \cup {d.oid}
                /\ (KindOf(LastOf(d.path)) = "volume" /\ pc' # "raised") =>
                      /\ NodeAt(state', Append(Cytoplasm(d), "VOLUME")).n
                            = NodeAt(state, Append(Cytoplasm(d), "MASS")).n
                      /\ NodeAt(state', Append(Cytoplasm(d), "VOLUME")).d
                            = NodeAt(state, Append(Cytoplasm(d), "DENSITY")).n]_vars

\* a pass in which the dividing deriver ran and removed its cell, and the
\* volume deriver of the cell, next in the pass, was skipped
C36_Witness ==
    /\ pc \in {"construct", "derive"}
    /\ i > Len(derivers)
    /\ \E j, k \in 1..Len(derivers) :
          /\ j < k
          /\ derivers[j].oid \in derived
          /\ KindOf(LastOf(derivers[j].path)) = "division"
          /\ derivers[k].oid \in tombs
          /\ derivers[k].oid \notin derived
          /\ KindOf(LastOf(derivers[k].path)) = "volume"

\* C37: global time never exceeds the requested interval at any tick of
\* update(interval), also in runs where processes are deleted or generated
C37_TimeBound == time <= cfg.interval

\* C38: no update is applied early: whenever a pending update is applied,
\* global time after the tick is at least the front time the update was
\* computed for; and a process never computes an update for an interval
\* starting before its own front time: the interval of every next_update
\* call starts at the front time the process had before the call (at the
\* global time for a process without a front entry) and ends at its new one
NotEarly == \A k \in 1..Len(applied) : applied[k].at >= applied[k].time

FromFront ==
    [][(pc = "compute" /\ calls' # calls) =>
          LET path == processes[i]
              before == IF path \in FrontPaths(front)
                        THEN FrontOf(front, path).time ELSE time
              call == calls'[Len(calls')]
          IN /\ call.path = path
             /\ call.dt >= 0
             /\ FrontOf(front', path).time - call.dt = before]_vars

C38_NotEarly == []NotEarly /\ FromFront

\* an update that was applied when time had passed the front time it was
\* computed for, and a process that computed again from its own front,
\* behind global time
C38_Witness ==
    /\ \E k \in 1..Len(applied) :
          ~applied[k].empty /\ applied[k].time < applied[k].at
    /\ pc = "advance"
    /\ \E k \in 1..Len(front) :
          /\ front[k].update # <<>>
          /\ front[k].time - LastCall(front[k].path).dt < time

\* C39: explicit state wins over defaults. apply_defaults changes only
\* leaves whose value is None, so (1) after generate every leaf named in the
\* initial state holds the given value and every other leaf its declared
\* default: in the generated colony the color of quark q1 is the given 2,
\* the count is a given one, the spin and the mass are their defaults, and
\* a cell generated by `_generate` with an empty initial state holds its
\* defaults; (2) after `_add` the added node holds the given state, for a
\* dict each leaf it names; (3) running apply_defaults again overwrites no
\* value that is not None.
Childless(st, k) == ~(k < Len(st) /\ IsPrefix(st[k].path, st[k + 1].path))

HoldsDefaults(st, p) ==
    \A k \in 1..Len(st) :
        (IsPrefix(p, st[k].path) /\ Childless(st, k)
            /\ st[k].value.t # "proc") => st[k].value = st[k].default

HoldsGiven(st, p, given) ==
    IF given.t = "dict"
    THEN \A j \in 1..Len(given.items) :
            /\ Present(st, Append(p, given.items[j].key))
            /\ NodeAt(st, Append(p, given.items[j].key)).value
                  = given.items[j].val
    ELSE Present(st, p) /\ NodeAt(st, p).value = given

Generated ==
    /\ NodeAt(tree, <<"m", "quarks", "q1", "color">>).value = IntV(2)
    /\ NodeAt(tree, CountPath).value \in Counts
    /\ HoldsDefaults(tree, <<"m", "quarks", "q1", "spin">>)
    /\ HoldsDefaults(tree, <<"m", "counts", "mass">>)

AddedAt(p) ==
    \A k \in 1..Len(UpdateAt(op.arg.u, p).add) :
        HoldsGiven(tree, p \o UpdateAt(op.arg.u, p).add[k].path,
                   UpdateAt(op.arg.u, p).add[k].state)

C39_ExplicitWins ==
    /\ ops = 0 => Generated
    /\ (op.name = "apply_update" /\ ~exc) =>
          /\ op.arg.u.items = <<>> =>
                \A k \in 1..Len(op.arg.u.generate) :
                    HoldsDefaults(tree, op.arg.u.generate[k].path)
          /\ Present(prev, FlagellaPath) => AddedAt(FlagellaPath)
          /\ AddedAt(QuarksPath)
    /\ \A k \in 1..Len(tree) :
          tree[k].value # NoneV
              => apply_defaults(tree, <<>>)[k].value = tree[k].value

====
